---- MODULE Spec2Model ----
(***************************************************************************)
(* AAT vs ECF cross-validation: the Classifier (add_category_column), the  *)
(* Version Resolver (parse_filename, find_latest_version,                  *)
(* find_previous_version, find_next_version, save_versioned_copy) and the  *)
(* Annotation Carry-Forward (extract_comments_mapping, update_comments,    *)
(* run_copy_comments), modelled from src/modules/cross_validation.py and   *)
(* src/modules/historical_validation_comments.py.                          *)
(*                                                                         *)
(* Conventions.  A Python value that may be None is None (= << >>) or      *)
(* Some(v) (= <<v>>).  A Python str is a sequence of one-character         *)
(* strings, so that regular-expression search, substring tests, strip()    *)
(* and int()/str() conversions are computed character by character.        *)
(* IRRs, durations and their diffs are floats, made by float(n, places) of *)
(* the decimal n * 10^-places; market values are whole dollars.            *)
(***************************************************************************)
EXTENDS Integers, Sequences, FiniteSets, TLC

VARIABLES
    summary,        \* rows of the 'Summary' worksheet that the Classifier reads and writes
    versioned,      \* config.VERSIONED_FILES_FOLDER: file name -> workbook
    summary_report, \* config.AAT_ECF_SUMMARY_REPORT: file name -> workbook
    last,           \* the last call: its name, its arguments, what it returned
    inputs,         \* the input files of a run: Table A (AAT data), Table B (Status_Final),
                    \* the columns they lack, whether the PM-owner file is there
    df,             \* the DataFrame that a run carries from load_data to save_to_excel
    runs            \* the calls of save_versioned_copy at work side by side: their steps and locals

vars == <<summary, versioned, summary_report, last, inputs, df, runs>>

----------------------------------------------------------------------------
(* Python values *)

None == << >>

Some(v) == <<v>>

IsNone(x) == x = None

Val(x) == x[1]

Abs(x) == IF x < 0 THEN -x ELSE x

\* no input file is there, and no run is under way
NoInputs == [aat_data |-> None, status_final |-> None]

\* no call of save_versioned_copy is at work beside the one that 'last' records
NoRuns == << >>

PipelineIdle == inputs = NoInputs /\ df = None /\ runs = NoRuns

----------------------------------------------------------------------------
(* Python float: IEEE 754 binary64, round to nearest, a tie to even.  The     *)
(* numeric cells of a workbook and the columns of a DataFrame are floats.    *)

\* A finite float is [neg, man, exp], written as float.hex() writes it: man is
\* the leading bit followed by the 13 hexadecimal digits of the fraction, exp
\* the power of two of the leading bit.  0x1.999999999999ap-4 (0.1) is
\* [neg |-> FALSE, man |-> <<1, 9, 9, 9, 9, 9, 9, 9, 9, 9, 9, 9, 9, 10>>, exp |-> -4];
\* zero has a man of zeros and exp 0.  The cells of this program are far from
\* the largest and the smallest float, so that no operation overflows or
\* leaves the normal range.

\* sys.float_info.mant_dig
MANT_DIG == 53

\* A natural number below 2^57 is <<hi, lo>>, the number hi * LIMB + lo with
\* lo < LIMB.
LIMB == 2^28

\* the number of bits of n >= 0
RECURSIVE bit_length(_)
bit_length(n) == IF n = 0 THEN 0 ELSE 1 + bit_length(n \div 2)

wide_length(X) == IF X[1] > 0 THEN 28 + bit_length(X[1]) ELSE bit_length(X[2])

wide_add(X, Y) ==
    LET lo == X[2] + Y[2]
    IN  <<X[1] + Y[1] + (lo \div LIMB), lo % LIMB>>

\* X - Y, X >= Y
wide_sub(X, Y) ==
    LET lo == X[2] - Y[2]
    IN  IF lo < 0 THEN <<X[1] - Y[1] - 1, lo + LIMB>> ELSE <<X[1] - Y[1], lo>>

wide_less(X, Y) == X[1] < Y[1] \/ (X[1] = Y[1] /\ X[2] < Y[2])

\* X * 2^c, c < 28
shift_left(X, c) ==
    <<X[1] * 2^c + (X[2] \div 2^(28 - c)), (X[2] % 2^(28 - c)) * 2^c>>

\* X * 2^c
wide_shift_left(X, c) ==
    IF c < 28 THEN shift_left(X, c) ELSE shift_left(<<X[2], 0>>, c - 28)

\* X \div 2^c, c < 28
shift_right(X, c) ==
    <<X[1] \div 2^c, (X[1] % 2^c) * 2^(28 - c) + (X[2] \div 2^c)>>

\* X \div 2^c
wide_shift_right(X, c) ==
    IF c < 28 THEN shift_right(X, c)
    ELSE IF c < 59 THEN <<(X[1] \div 2^(c - 28)) \div LIMB, (X[1] \div 2^(c - 28)) % LIMB>>
    ELSE <<0, 0>>

\* X % 2^c # 0: a bit that is 1 is among the last c bits of X
wide_lost(X, c) ==
    IF c < 28 THEN X[2] % 2^c # 0
    ELSE IF c < 59 THEN X[2] # 0 \/ X[1] % 2^(c - 28) # 0
    ELSE X # <<0, 0>>

\* X \div 2^c, its last bit set when a bit that is 1 is shifted out
shift_right_sticky(X, c) ==
    LET Y == wide_shift_right(X, c)
    IN  IF wide_lost(X, c) /\ Y[2] % 2 = 0 THEN <<Y[1], Y[2] + 1>> ELSE Y

\* the number of MANT_DIG bits that man writes
man_wide(man) ==
    <<man[1] * 16777216 + man[2] * 1048576 + man[3] * 65536 + man[4] * 4096
          + man[5] * 256 + man[6] * 16 + man[7],
      man[8] * 16777216 + man[9] * 1048576 + man[10] * 65536 + man[11] * 4096
          + man[12] * 256 + man[13] * 16 + man[14]>>

\* the man of a number of MANT_DIG bits
wide_man(X) ==
    [k \in 1..14 |->
        IF k = 1 THEN X[1] \div 16777216
        ELSE IF k <= 7 THEN (X[1] \div 16^(7 - k)) % 16
        ELSE (X[2] \div 16^(14 - k)) % 16]

\* The float nearest to (-1)^neg * (X + f) * 2^exp, where 0 <= f < 1 and f > 0
\* iff inexact, a tie going to the even neighbour; an inexact number comes
\* with more than MANT_DIG bits.
round(neg, X, exp, inexact) ==
    LET L == wide_length(X)
        s == L - MANT_DIG
    IN  IF L = 0 THEN [neg |-> neg, man |-> wide_man(<<0, 0>>), exp |-> 0]
        ELSE IF s <= 0
        THEN [neg |-> neg, man |-> wide_man(wide_shift_left(X, -s)), exp |-> exp + L - 1]
        ELSE LET down == wide_shift_right(X, s)
                 rest == X[2] % 2^s
                 half == 2^(s - 1)
                 up == rest > half
                       \/ (rest = half /\ (inexact \/ down[2] % 2 = 1))
                 M == IF up THEN wide_add(down, <<0, 1>>) ELSE down
             IN  IF wide_length(M) > MANT_DIG
                 THEN [neg |-> neg, man |-> wide_man(shift_right(M, 1)), exp |-> exp + L]
                 ELSE [neg |-> neg, man |-> wide_man(M), exp |-> exp + L - 1]

RECURSIVE pow10(_)
pow10(k) == IF k = 0 THEN 1 ELSE 10 * pow10(k - 1)

\* The quotient of r * 2^k + X * d by d, k the least for which the quotient has
\* MANT_DIG + 2 bits or the division leaves nothing, worked out some bits at a
\* time from the bits X that the quotient has so far; r < d.
RECURSIVE divide(_, _, _, _)
divide(r, d, X, k) ==
    LET room == MANT_DIG + 2 - wide_length(X)
        most == bit_length(2147483647 \div d) - 1
        some == IF most < 27 THEN most ELSE 27
        c == IF room < some THEN room ELSE some
        v == r * 2^c
    IN  IF r = 0 \/ room <= 0 THEN [quotient |-> X, bits |-> k, rem |-> r]
        ELSE divide(v % d, d, wide_add(shift_left(X, c), <<0, v \div d>>), k + c)

\* x == 0.0
is_zero(x) == x.man[1] = 0

\* n / d of two whole numbers that floats hold exactly; 0 < |d| <= 10^8
fdiv(n, d) ==
    LET a == IF n < 0 THEN -n ELSE n
        b == IF d < 0 THEN -d ELSE d
        q == divide(a % b, b, <<(a \div b) \div LIMB, (a \div b) % LIMB>>, 0)
    IN  round((n < 0) # (d < 0), q.quotient, -q.bits, q.rem # 0)

\* The float of the decimal n * 10^-places, as float() makes it of a literal
\* and of the text of a numeric cell; places <= 8.
float(n, places) == fdiv(n, pow10(places))

\* X * 25
wide_times_25(X) == wide_add(wide_add(shift_left(X, 4), shift_left(X, 3)), X)

\* x * 100
times_100(x) == round(x.neg, wide_times_25(man_wide(x.man)), x.exp - (MANT_DIG - 1) + 2, FALSE)

\* The whole number nearest to |x| * 100, a tie going to the even neighbour,
\* as the format '.2f' rounds the value that x holds; |x| < 2^21
hundredths(x) ==
    LET T == shift_right_sticky(wide_times_25(man_wide(x.man)), MANT_DIG - 1 - 2 - x.exp - 2)
        q == (T[1] * LIMB + T[2]) \div 4
        rest == T[2] % 4
    IN  IF is_zero(x) THEN 0
        ELSE IF rest = 3 \/ (rest = 2 /\ q % 2 = 1) THEN q + 1
        ELSE q

\* -x
fneg(x) == [x EXCEPT !.neg = ~@]

\* abs(x)
fabs(x) == [x EXCEPT !.neg = FALSE]

\* a < b, of two runs of digits of one length
digits_less(a, b) ==
    \E i \in DOMAIN a : a[i] < b[i] /\ \A j \in 1..(i - 1) : a[j] = b[j]

\* |x| < |y|
mag_less(x, y) ==
    /\ ~is_zero(y)
    /\ \/ is_zero(x)
       \/ x.exp < y.exp
       \/ x.exp = y.exp /\ digits_less(x.man, y.man)

\* x + y, |x| >= |y| > 0: y is brought to x's exponent with three more bits,
\* the last of them set when a bit that is 1 is lost
fadd_ordered(x, y) ==
    LET A == shift_left(man_wide(x.man), 3)
        B == shift_right_sticky(shift_left(man_wide(y.man), 3), x.exp - y.exp)
        lsb == x.exp - (MANT_DIG - 1) - 3
    IN  IF x.neg = y.neg THEN round(x.neg, wide_add(A, B), lsb, FALSE)
        ELSE round(x.neg /\ A # B, wide_sub(A, B), lsb, FALSE)

\* x + y
fadd(x, y) ==
    IF is_zero(x) /\ is_zero(y) THEN [x EXCEPT !.neg = x.neg /\ y.neg]
    ELSE IF is_zero(x) THEN y
    ELSE IF is_zero(y) THEN x
    ELSE IF mag_less(x, y) THEN fadd_ordered(y, x)
    ELSE fadd_ordered(x, y)

\* x - y
fsub(x, y) == fadd(x, fneg(y))

\* x < y
flt(x, y) ==
    IF x.neg # y.neg THEN x.neg /\ ~(is_zero(x) /\ is_zero(y))
    ELSE IF x.neg THEN mag_less(y, x)
    ELSE mag_less(x, y)

\* x > y
fgt(x, y) == flt(y, x)

\* x >= y
fge(x, y) == ~flt(x, y)

----------------------------------------------------------------------------
(* Classifier: cross_validation.add_category_column *)

\* config.IRR_DIFF_THRESHOLD = 0.05
IRR_DIFF_THRESHOLD == float(5, 2)

\* config.DURATION_DIFF_THRESHOLD = 0.5
DURATION_DIFF_THRESHOLD == float(5, 1)

\* config.SIGNIFICANT_MV_THRESHOLD = 25_000_000 dollars
SIGNIFICANT_MV_THRESHOLD == 25000000

\* '>=' where the code has '>'
has_irr_discrepancy_nonstrict(irr_diff) ==
    ~IsNone(irr_diff) /\ fge(fabs(Val(irr_diff)), IRR_DIFF_THRESHOLD)

has_irr_discrepancy(irr_diff) ==
    ~IsNone(irr_diff) /\ fgt(fabs(Val(irr_diff)), IRR_DIFF_THRESHOLD)

has_duration_discrepancy(duration_diff) ==
    ~IsNone(duration_diff) /\ fgt(fabs(Val(duration_diff)), DURATION_DIFF_THRESHOLD)

is_significant_mv(mv_value) ==
    ~IsNone(mv_value) /\ Val(mv_value) > SIGNIFICANT_MV_THRESHOLD

\* the two 'ignore'/'significant' labels exchanged
row_category_swapped(irr_diff, duration_diff, mv_value) ==
    LET disc == has_irr_discrepancy(irr_diff) \/ has_duration_discrepancy(duration_diff)
    IN  IF ~IsNone(irr_diff) \/ ~IsNone(duration_diff)
        THEN IF is_significant_mv(mv_value)
             THEN Some(IF disc THEN "Significant discrepancy but ignore" ELSE "Alignment")
             ELSE Some(IF disc THEN "Significant Discrepancy" ELSE "Alignment")
        ELSE None

\* The body of the row loop: the value written to the row's Category cell,
\* None when the cell is left empty.
row_category(irr_diff, duration_diff, mv_value) ==
    LET disc == has_irr_discrepancy(irr_diff) \/ has_duration_discrepancy(duration_diff)
    IN  IF ~IsNone(irr_diff) \/ ~IsNone(duration_diff)
        THEN IF is_significant_mv(mv_value)
             THEN Some(IF disc THEN "Significant Discrepancy" ELSE "Alignment")
             ELSE Some(IF disc THEN "Significant discrepancy but ignore" ELSE "Alignment")
        ELSE None

\* range(2, ws.max_row) where the code has range(2, ws.max_row + 1)
categorize_rows_short(rows) ==
    [i \in DOMAIN rows |->
        IF i < Len(rows)
        THEN [rows[i] EXCEPT !.category =
                 row_category(rows[i].irr_diff, rows[i].duration_diff, rows[i].mv_value)]
        ELSE rows[i]]

\* for row in range(2, ws.max_row + 1): every data row, in order
categorize_rows(rows) ==
    [i \in DOMAIN rows |->
        [rows[i] EXCEPT !.category =
            row_category(rows[i].irr_diff, rows[i].duration_diff, rows[i].mv_value)]]

\* Cell values around the three thresholds: IRR diffs of -0.0500001, 0.05 and
\* 0.0500001, duration diffs of -0.6 and 0.5.
MaxRows == 2

IrrDiffValues == {None, Some(float(-500001, 7)), Some(float(5, 2)), Some(float(500001, 7))}

DurationDiffValues == {None, Some(float(-6, 1)), Some(float(5, 1))}

MvValues == {None, Some(25000000), Some(25000001)}

SummaryRows ==
    [irr_diff : IrrDiffValues, duration_diff : DurationDiffValues,
     mv_value : MvValues, category : {None}]

EmptyFolder == [f \in {} |-> None]

InitClassifier ==
    /\ PipelineIdle
    /\ summary \in UNION {[1..n -> SummaryRows] : n \in 1..MaxRows}
    /\ versioned = EmptyFolder
    /\ summary_report = EmptyFolder
    /\ last = [op |-> "save_to_excel"]

\* add_category_column runs once per report, on the sheet save_to_excel wrote.
add_category_column ==
    /\ last.op = "save_to_excel"
    /\ summary' = categorize_rows(summary)
    /\ last' = [op |-> "add_category_column", before |-> summary]
    /\ UNCHANGED <<versioned, summary_report, inputs, df, runs>>

NextClassifier == add_category_column

SpecClassifier == InitClassifier /\ [][NextClassifier]_vars

----------------------------------------------------------------------------
(* Claims about the Classifier *)

Categories == {"Significant Discrepancy", "Significant discrepancy but ignore", "Alignment"}

Classified == last.op = "add_category_column"

\* The claim's own has_discrepancy and is_material, written out from the spec.
Discrepant(r) ==
    \/ (r.irr_diff # None
        /\ (fgt(r.irr_diff[1], IRR_DIFF_THRESHOLD) \/ fgt(fneg(r.irr_diff[1]), IRR_DIFF_THRESHOLD)))
    \/ (r.duration_diff # None
        /\ (fgt(r.duration_diff[1], DURATION_DIFF_THRESHOLD)
            \/ fgt(fneg(r.duration_diff[1]), DURATION_DIFF_THRESHOLD)))

Material(r) == r.mv_value # None /\ r.mv_value[1] > SIGNIFICANT_MV_THRESHOLD

\* C1: after add_category_column, every row with at least one non-null diff is
\* 'Significant Discrepancy' when discrepant and material, 'Significant
\* discrepancy but ignore' when discrepant and not material (a null market
\* value included), and 'Alignment' when not discrepant, whatever its market value.
C1_DecisionRule ==
    Classified =>
        \A i \in DOMAIN summary :
            LET r == summary[i] IN
            (r.irr_diff # None \/ r.duration_diff # None) =>
                /\ (Discrepant(r) /\ Material(r)) => r.category = Some("Significant Discrepancy")
                /\ (Discrepant(r) /\ ~Material(r)) => r.category = Some("Significant discrepancy but ignore")
                /\ ~Discrepant(r) => r.category = Some("Alignment")

C1_Witness ==
    /\ Classified
    /\ Len(summary) = 2
    /\ summary[1].category = Some("Significant Discrepancy")
    /\ summary[2].category = Some("Significant discrepancy but ignore")
    /\ summary[2].mv_value = None

\* C2: a row gets one of the three categories iff one of its diffs is non-null
\* (a row with both null keeps an empty Category cell), and two rows with the
\* same (irr_diff, duration_diff, market_value) get the same category wherever
\* they stand and whatever the other rows hold.
C2_TotalAndPure ==
    Classified =>
        /\ \A i \in DOMAIN summary :
              /\ (summary[i].irr_diff # None \/ summary[i].duration_diff # None)
                    <=> (summary[i].category # None /\ summary[i].category[1] \in Categories)
              /\ (summary[i].irr_diff = None /\ summary[i].duration_diff = None)
                    => summary[i].category = None
              /\ summary[i].irr_diff = last.before[i].irr_diff
              /\ summary[i].duration_diff = last.before[i].duration_diff
              /\ summary[i].mv_value = last.before[i].mv_value
        /\ \A i, j \in DOMAIN summary :
              (/\ summary[i].irr_diff = summary[j].irr_diff
               /\ summary[i].duration_diff = summary[j].duration_diff
               /\ summary[i].mv_value = summary[j].mv_value)
                  => summary[i].category = summary[j].category

C2_Witness ==
    /\ Classified
    /\ Len(summary) = 2
    /\ summary[1].irr_diff = None /\ summary[1].duration_diff = None
    /\ summary[1].category = None
    /\ summary[2].irr_diff = None /\ summary[2].duration_diff # None
    /\ summary[2].category = Some("Alignment")

\* C3: the thresholds are strict.  |irr_diff| = 0.05 with |duration_diff| <= 0.5
\* is Alignment; |irr_diff| > 0.05 is a discrepancy; |duration_diff| = 0.5 alone
\* is no discrepancy; a market value of exactly 25,000,000 is not material.
C3_StrictThresholds ==
    Classified =>
        \A i \in DOMAIN summary :
            LET r == summary[i]
                irrAt == r.irr_diff \in {Some(IRR_DIFF_THRESHOLD), Some(fneg(IRR_DIFF_THRESHOLD))}
                irrOver == r.irr_diff # None
                           /\ (fgt(r.irr_diff[1], IRR_DIFF_THRESHOLD)
                               \/ flt(r.irr_diff[1], fneg(IRR_DIFF_THRESHOLD)))
                durAt == r.duration_diff
                             \in {Some(DURATION_DIFF_THRESHOLD), Some(fneg(DURATION_DIFF_THRESHOLD))}
            IN  /\ (irrAt /\ (r.duration_diff = None \/ durAt)) => r.category = Some("Alignment")
                /\ irrOver => r.category \in {Some("Significant Discrepancy"),
                                              Some("Significant discrepancy but ignore")}
                /\ (durAt /\ r.irr_diff = None) => r.category = Some("Alignment")
                /\ (irrOver /\ r.mv_value = Some(SIGNIFICANT_MV_THRESHOLD))
                      => r.category = Some("Significant discrepancy but ignore")

C3_Witness ==
    /\ Classified
    /\ Len(summary) = 2
    /\ summary[1].irr_diff = Some(IRR_DIFF_THRESHOLD)
    /\ summary[1].duration_diff = Some(DURATION_DIFF_THRESHOLD)
    /\ summary[1].category = Some("Alignment")
    /\ summary[2].irr_diff = Some(float(500001, 7))
    /\ summary[2].mv_value = Some(SIGNIFICANT_MV_THRESHOLD)
    /\ summary[2].category = Some("Significant discrepancy but ignore")

----------------------------------------------------------------------------
(* Python str: sequences of one-character strings *)

\* A character outside ASCII is written by its code point, as in "U+0663".

DigitChars == <<"0", "1", "2", "3", "4", "5", "6", "7", "8", "9">>

\* The decimal digits of the other scripts (Unicode category Nd), a script to a
\* line, each from its zero to its nine.
UNICODE_DIGITS ==
    << <<"U+0660", "U+0661", "U+0662", "U+0663", "U+0664", "U+0665", "U+0666", "U+0667", "U+0668", "U+0669">>,
       <<"U+06F0", "U+06F1", "U+06F2", "U+06F3", "U+06F4", "U+06F5", "U+06F6", "U+06F7", "U+06F8", "U+06F9">>,
       <<"U+07C0", "U+07C1", "U+07C2", "U+07C3", "U+07C4", "U+07C5", "U+07C6", "U+07C7", "U+07C8", "U+07C9">>,
       <<"U+0966", "U+0967", "U+0968", "U+0969", "U+096A", "U+096B", "U+096C", "U+096D", "U+096E", "U+096F">>,
       <<"U+09E6", "U+09E7", "U+09E8", "U+09E9", "U+09EA", "U+09EB", "U+09EC", "U+09ED", "U+09EE", "U+09EF">>,
       <<"U+0A66", "U+0A67", "U+0A68", "U+0A69", "U+0A6A", "U+0A6B", "U+0A6C", "U+0A6D", "U+0A6E", "U+0A6F">>,
       <<"U+0AE6", "U+0AE7", "U+0AE8", "U+0AE9", "U+0AEA", "U+0AEB", "U+0AEC", "U+0AED", "U+0AEE", "U+0AEF">>,
       <<"U+0B66", "U+0B67", "U+0B68", "U+0B69", "U+0B6A", "U+0B6B", "U+0B6C", "U+0B6D", "U+0B6E", "U+0B6F">>,
       <<"U+0BE6", "U+0BE7", "U+0BE8", "U+0BE9", "U+0BEA", "U+0BEB", "U+0BEC", "U+0BED", "U+0BEE", "U+0BEF">>,
       <<"U+0C66", "U+0C67", "U+0C68", "U+0C69", "U+0C6A", "U+0C6B", "U+0C6C", "U+0C6D", "U+0C6E", "U+0C6F">>,
       <<"U+0CE6", "U+0CE7", "U+0CE8", "U+0CE9", "U+0CEA", "U+0CEB", "U+0CEC", "U+0CED", "U+0CEE", "U+0CEF">>,
       <<"U+0D66", "U+0D67", "U+0D68", "U+0D69", "U+0D6A", "U+0D6B", "U+0D6C", "U+0D6D", "U+0D6E", "U+0D6F">>,
       <<"U+0DE6", "U+0DE7", "U+0DE8", "U+0DE9", "U+0DEA", "U+0DEB", "U+0DEC", "U+0DED", "U+0DEE", "U+0DEF">>,
       <<"U+0E50", "U+0E51", "U+0E52", "U+0E53", "U+0E54", "U+0E55", "U+0E56", "U+0E57", "U+0E58", "U+0E59">>,
       <<"U+0ED0", "U+0ED1", "U+0ED2", "U+0ED3", "U+0ED4", "U+0ED5", "U+0ED6", "U+0ED7", "U+0ED8", "U+0ED9">>,
       <<"U+0F20", "U+0F21", "U+0F22", "U+0F23", "U+0F24", "U+0F25", "U+0F26", "U+0F27", "U+0F28", "U+0F29">>,
       <<"U+1040", "U+1041", "U+1042", "U+1043", "U+1044", "U+1045", "U+1046", "U+1047", "U+1048", "U+1049">>,
       <<"U+1090", "U+1091", "U+1092", "U+1093", "U+1094", "U+1095", "U+1096", "U+1097", "U+1098", "U+1099">>,
       <<"U+17E0", "U+17E1", "U+17E2", "U+17E3", "U+17E4", "U+17E5", "U+17E6", "U+17E7", "U+17E8", "U+17E9">>,
       <<"U+1810", "U+1811", "U+1812", "U+1813", "U+1814", "U+1815", "U+1816", "U+1817", "U+1818", "U+1819">>,
       <<"U+1946", "U+1947", "U+1948", "U+1949", "U+194A", "U+194B", "U+194C", "U+194D", "U+194E", "U+194F">>,
       <<"U+19D0", "U+19D1", "U+19D2", "U+19D3", "U+19D4", "U+19D5", "U+19D6", "U+19D7", "U+19D8", "U+19D9">>,
       <<"U+1A80", "U+1A81", "U+1A82", "U+1A83", "U+1A84", "U+1A85", "U+1A86", "U+1A87", "U+1A88", "U+1A89">>,
       <<"U+1A90", "U+1A91", "U+1A92", "U+1A93", "U+1A94", "U+1A95", "U+1A96", "U+1A97", "U+1A98", "U+1A99">>,
       <<"U+1B50", "U+1B51", "U+1B52", "U+1B53", "U+1B54", "U+1B55", "U+1B56", "U+1B57", "U+1B58", "U+1B59">>,
       <<"U+1BB0", "U+1BB1", "U+1BB2", "U+1BB3", "U+1BB4", "U+1BB5", "U+1BB6", "U+1BB7", "U+1BB8", "U+1BB9">>,
       <<"U+1C40", "U+1C41", "U+1C42", "U+1C43", "U+1C44", "U+1C45", "U+1C46", "U+1C47", "U+1C48", "U+1C49">>,
       <<"U+1C50", "U+1C51", "U+1C52", "U+1C53", "U+1C54", "U+1C55", "U+1C56", "U+1C57", "U+1C58", "U+1C59">>,
       <<"U+A620", "U+A621", "U+A622", "U+A623", "U+A624", "U+A625", "U+A626", "U+A627", "U+A628", "U+A629">>,
       <<"U+A8D0", "U+A8D1", "U+A8D2", "U+A8D3", "U+A8D4", "U+A8D5", "U+A8D6", "U+A8D7", "U+A8D8", "U+A8D9">>,
       <<"U+A900", "U+A901", "U+A902", "U+A903", "U+A904", "U+A905", "U+A906", "U+A907", "U+A908", "U+A909">>,
       <<"U+A9D0", "U+A9D1", "U+A9D2", "U+A9D3", "U+A9D4", "U+A9D5", "U+A9D6", "U+A9D7", "U+A9D8", "U+A9D9">>,
       <<"U+A9F0", "U+A9F1", "U+A9F2", "U+A9F3", "U+A9F4", "U+A9F5", "U+A9F6", "U+A9F7", "U+A9F8", "U+A9F9">>,
       <<"U+AA50", "U+AA51", "U+AA52", "U+AA53", "U+AA54", "U+AA55", "U+AA56", "U+AA57", "U+AA58", "U+AA59">>,
       <<"U+ABF0", "U+ABF1", "U+ABF2", "U+ABF3", "U+ABF4", "U+ABF5", "U+ABF6", "U+ABF7", "U+ABF8", "U+ABF9">>,
       <<"U+FF10", "U+FF11", "U+FF12", "U+FF13", "U+FF14", "U+FF15", "U+FF16", "U+FF17", "U+FF18", "U+FF19">>,
       <<"U+104A0", "U+104A1", "U+104A2", "U+104A3", "U+104A4", "U+104A5", "U+104A6", "U+104A7", "U+104A8", "U+104A9">>,
       <<"U+10D30", "U+10D31", "U+10D32", "U+10D33", "U+10D34", "U+10D35", "U+10D36", "U+10D37", "U+10D38", "U+10D39">>,
       <<"U+11066", "U+11067", "U+11068", "U+11069", "U+1106A", "U+1106B", "U+1106C", "U+1106D", "U+1106E", "U+1106F">>,
       <<"U+110F0", "U+110F1", "U+110F2", "U+110F3", "U+110F4", "U+110F5", "U+110F6", "U+110F7", "U+110F8", "U+110F9">>,
       <<"U+11136", "U+11137", "U+11138", "U+11139", "U+1113A", "U+1113B", "U+1113C", "U+1113D", "U+1113E", "U+1113F">>,
       <<"U+111D0", "U+111D1", "U+111D2", "U+111D3", "U+111D4", "U+111D5", "U+111D6", "U+111D7", "U+111D8", "U+111D9">>,
       <<"U+112F0", "U+112F1", "U+112F2", "U+112F3", "U+112F4", "U+112F5", "U+112F6", "U+112F7", "U+112F8", "U+112F9">>,
       <<"U+11450", "U+11451", "U+11452", "U+11453", "U+11454", "U+11455", "U+11456", "U+11457", "U+11458", "U+11459">>,
       <<"U+114D0", "U+114D1", "U+114D2", "U+114D3", "U+114D4", "U+114D5", "U+114D6", "U+114D7", "U+114D8", "U+114D9">>,
       <<"U+11650", "U+11651", "U+11652", "U+11653", "U+11654", "U+11655", "U+11656", "U+11657", "U+11658", "U+11659">>,
       <<"U+116C0", "U+116C1", "U+116C2", "U+116C3", "U+116C4", "U+116C5", "U+116C6", "U+116C7", "U+116C8", "U+116C9">>,
       <<"U+11730", "U+11731", "U+11732", "U+11733", "U+11734", "U+11735", "U+11736", "U+11737", "U+11738", "U+11739">>,
       <<"U+118E0", "U+118E1", "U+118E2", "U+118E3", "U+118E4", "U+118E5", "U+118E6", "U+118E7", "U+118E8", "U+118E9">>,
       <<"U+11950", "U+11951", "U+11952", "U+11953", "U+11954", "U+11955", "U+11956", "U+11957", "U+11958", "U+11959">>,
       <<"U+11C50", "U+11C51", "U+11C52", "U+11C53", "U+11C54", "U+11C55", "U+11C56", "U+11C57", "U+11C58", "U+11C59">>,
       <<"U+11D50", "U+11D51", "U+11D52", "U+11D53", "U+11D54", "U+11D55", "U+11D56", "U+11D57", "U+11D58", "U+11D59">>,
       <<"U+11DA0", "U+11DA1", "U+11DA2", "U+11DA3", "U+11DA4", "U+11DA5", "U+11DA6", "U+11DA7", "U+11DA8", "U+11DA9">>,
       <<"U+16A60", "U+16A61", "U+16A62", "U+16A63", "U+16A64", "U+16A65", "U+16A66", "U+16A67", "U+16A68", "U+16A69">>,
       <<"U+16AC0", "U+16AC1", "U+16AC2", "U+16AC3", "U+16AC4", "U+16AC5", "U+16AC6", "U+16AC7", "U+16AC8", "U+16AC9">>,
       <<"U+16B50", "U+16B51", "U+16B52", "U+16B53", "U+16B54", "U+16B55", "U+16B56", "U+16B57", "U+16B58", "U+16B59">>,
       <<"U+1D7CE", "U+1D7CF", "U+1D7D0", "U+1D7D1", "U+1D7D2", "U+1D7D3", "U+1D7D4", "U+1D7D5", "U+1D7D6", "U+1D7D7">>,
       <<"U+1D7D8", "U+1D7D9", "U+1D7DA", "U+1D7DB", "U+1D7DC", "U+1D7DD", "U+1D7DE", "U+1D7DF", "U+1D7E0", "U+1D7E1">>,
       <<"U+1D7E2", "U+1D7E3", "U+1D7E4", "U+1D7E5", "U+1D7E6", "U+1D7E7", "U+1D7E8", "U+1D7E9", "U+1D7EA", "U+1D7EB">>,
       <<"U+1D7EC", "U+1D7ED", "U+1D7EE", "U+1D7EF", "U+1D7F0", "U+1D7F1", "U+1D7F2", "U+1D7F3", "U+1D7F4", "U+1D7F5">>,
       <<"U+1D7F6", "U+1D7F7", "U+1D7F8", "U+1D7F9", "U+1D7FA", "U+1D7FB", "U+1D7FC", "U+1D7FD", "U+1D7FE", "U+1D7FF">>,
       <<"U+1E140", "U+1E141", "U+1E142", "U+1E143", "U+1E144", "U+1E145", "U+1E146", "U+1E147", "U+1E148", "U+1E149">>,
       <<"U+1E2F0", "U+1E2F1", "U+1E2F2", "U+1E2F3", "U+1E2F4", "U+1E2F5", "U+1E2F6", "U+1E2F7", "U+1E2F8", "U+1E2F9">>,
       <<"U+1E950", "U+1E951", "U+1E952", "U+1E953", "U+1E954", "U+1E955", "U+1E956", "U+1E957", "U+1E958", "U+1E959">>,
       <<"U+1FBF0", "U+1FBF1", "U+1FBF2", "U+1FBF3", "U+1FBF4", "U+1FBF5", "U+1FBF6", "U+1FBF7", "U+1FBF8", "U+1FBF9">> >>

\* the characters of digit value k - 1
DigitsOfValue(k) ==
    {DigitChars[k]} \cup {UNICODE_DIGITS[b][k] : b \in DOMAIN UNICODE_DIGITS}

DigitSet == UNION {DigitsOfValue(k) : k \in 1..10}

\* \d of the regular expressions, whose patterns are str: any decimal digit
IsDigit(c) == c \in DigitSet

DigitValue(c) == (CHOOSE k \in 1..10 : c \in DigitsOfValue(k)) - 1

\* int(match.group(...)): the decimal value of a run of digits, leading zeros allowed
RECURSIVE int(_)
int(s) == IF s = << >> THEN 0 ELSE int(SubSeq(s, 1, Len(s) - 1)) * 10 + DigitValue(s[Len(s)])

\* the decimal text of n >= 0 in an f-string, without leading zeros
RECURSIVE str(_)
str(n) == IF n < 10 THEN <<DigitChars[n + 1]>> ELSE str(n \div 10) \o <<DigitChars[(n % 10) + 1]>>

\* %Y, %m and %d of strftime: n in exactly w digits
RECURSIVE zero_pad(_, _)
zero_pad(n, w) == IF w = 0 THEN << >> ELSE zero_pad(n \div 10, w - 1) \o <<DigitChars[(n % 10) + 1]>>

\* f.startswith(p)
startswith(f, p) == Len(f) >= Len(p) /\ SubSeq(f, 1, Len(p)) = p

\* f.endswith(p)
endswith(f, p) == Len(f) >= Len(p) /\ SubSeq(f, Len(f) - Len(p) + 1, Len(f)) = p

\* p in f
contains(f, p) == \E i \in 1..(Len(f) - Len(p) + 1) : SubSeq(f, i, i + Len(p) - 1) = p

\* The last index of the longest run of digits that starts at i: greedy (\d+).
DigitRunEnd(s, i) ==
    CHOOSE e \in i..Len(s) :
        /\ \A k \in i..e : IsDigit(s[k])
        /\ e = Len(s) \/ ~IsDigit(s[e + 1])

\* date_str followed by '.v' and at least one digit, at position i of s
DateTokenAt(s, i, date_str) ==
    /\ i + Len(date_str) + 2 <= Len(s)
    /\ \A k \in 1..Len(date_str) : s[i + k - 1] = date_str[k]
    /\ s[i + Len(date_str)] = "."
    /\ s[i + Len(date_str) + 1] = "v"
    /\ IsDigit(s[i + Len(date_str) + 2])

\* the width of the date in a file name: (\d{8})
DATE_DIGITS == 8

\* r'(\d{8})\.v(\d+)' at position i of s
AnyDateTokenAt(s, i) ==
    /\ i + DATE_DIGITS + 2 <= Len(s)
    /\ \A k \in i..(i + DATE_DIGITS - 1) : IsDigit(s[k])
    /\ s[i + DATE_DIGITS] = "."
    /\ s[i + DATE_DIGITS + 1] = "v"
    /\ IsDigit(s[i + DATE_DIGITS + 2])

\* re.search scans from the left: the first position from i on where the
\* pattern r'(\d{8})\.v(\d+)' matches, 0 when there is none
RECURSIVE search_any_date_token(_, _)
search_any_date_token(s, i) ==
    IF i > Len(s) THEN 0
    ELSE IF AnyDateTokenAt(s, i) THEN i
    ELSE search_any_date_token(s, i + 1)

\* the first position from i on where rf'{date_str}\.v(\d+)' matches, 0 when
\* there is none
RECURSIVE search_date_token(_, _, _)
search_date_token(s, i, date_str) ==
    IF i > Len(s) THEN 0
    ELSE IF DateTokenAt(s, i, date_str) THEN i
    ELSE search_date_token(s, i + 1, date_str)

\* parse_filename: (date_str, version) of the first <8 digits>.v<N> token, or None
parse_filename(filename) ==
    LET i == search_any_date_token(filename, 1)
        v == i + DATE_DIGITS + 2
    IN  IF i = 0 THEN None
        ELSE Some(<<SubSeq(filename, i, i + DATE_DIGITS - 1),
                    int(SubSeq(filename, v, DigitRunEnd(filename, v)))>>)

----------------------------------------------------------------------------
(* Dates *)

Min(a, b) == IF a <= b THEN a ELSE b

IsLeapYear(y) == (y % 4 = 0 /\ y % 100 # 0) \/ y % 400 = 0

DaysInMonth(y, m) ==
    IF m = 2 THEN (IF IsLeapYear(y) THEN 29 ELSE 28)
    ELSE IF m \in {4, 6, 9, 11} THEN 30 ELSE 31

\* datetime.strptime(date_str, '%Y%m%d')
strptime(date_str) ==
    [year |-> int(SubSeq(date_str, 1, 4)),
     month |-> int(SubSeq(date_str, 5, 6)),
     day |-> int(SubSeq(date_str, 7, 8))]

\* dt.strftime('%Y%m%d')
strftime(dt) == zero_pad(dt.year, 4) \o zero_pad(dt.month, 2) \o zero_pad(dt.day, 2)

\* dt - relativedelta(months=1): the same day of the month before, clipped to
\* that month's last day
minus_one_month(dt) ==
    LET y == IF dt.month = 1 THEN dt.year - 1 ELSE dt.year
        m == IF dt.month = 1 THEN 12 ELSE dt.month - 1
    IN  [year |-> y, month |-> m, day |-> Min(dt.day, DaysInMonth(y, m))]

\* dt - pd.offsets.MonthEnd(1): the last day of the month before
minus_month_end(dt) ==
    LET y == IF dt.month = 1 THEN dt.year - 1 ELSE dt.year
        m == IF dt.month = 1 THEN 12 ELSE dt.month - 1
    IN  [year |-> y, month |-> m, day |-> DaysInMonth(y, m)]

\* f"{d.month}/{d.day}/{str(d.year)[-2:]}"
format_date(d) ==
    LET year == str(d.year)
    IN  str(d.month) \o <<"/">> \o str(d.day) \o <<"/">>
            \o SubSeq(year, Len(year) - 1, Len(year))

\* initialize_dates: (formatted_current, formatted_last) of a run for date_str
initialize_dates(date_str) ==
    LET current_date == strptime(date_str)
        last_date == minus_month_end(current_date)
    IN  <<format_date(current_date), format_date(last_date)>>

----------------------------------------------------------------------------
(* Version Resolver: file names and the versioned folder *)

\* 'AAT vs ECF '
REPORT_NAME == <<"A", "A", "T", " ", "v", "s", " ", "E", "C", "F", " ">>

\* '.xlsx'
XLSX == <<".", "x", "l", "s", "x">>

\* '~$', the prefix of Excel's lock files
LOCK_PREFIX == <<"~", "$">>

\* f'AAT vs ECF {date_str}.v{next_version}.xlsx'
versioned_filename(date_str, version) ==
    REPORT_NAME \o date_str \o <<".", "v">> \o str(version) \o XLSX

\* [f for f in os.listdir(folder) if f.endswith('.xlsx') and not f.startswith('~$')]
all_files(folder) ==
    {f \in DOMAIN folder : endswith(f, XLSX) /\ ~startswith(f, LOCK_PREFIX)}

\* matching_files: (filename, version) of the files whose parsed date is date_str
matching_files(date_str, folder) ==
    LET parsed == {<<f, parse_filename(f)>> : f \in all_files(folder)}
    IN  {<<p[1], Val(p[2])[2]>> :
            p \in {q \in parsed : ~IsNone(q[2]) /\ Val(q[2])[1] = date_str}}

\* sort ascending where the code sorts with reverse=True: the lowest version first
first_after_sort_ascending(files) ==
    {x \in files : \A y \in files : x[2] <= y[2]}

\* files.sort(key=lambda x: x[1], reverse=True); files[0].  The sort is stable
\* and os.listdir gives the names in arbitrary order, so among the files of the
\* highest version any one may come first.
first_after_sort(files) ==
    {x \in files : \A y \in files : y[2] <= x[2]}

\* find_latest_version: the results the call may return, None or Some(<<path, N>>)
find_latest_version(date_str, source_folder) ==
    LET matching == matching_files(date_str, source_folder)
    IN  IF matching = {} THEN {None}
        ELSE {Some(latest_file) : latest_file \in first_after_sort(matching)}

\* find_previous_version: the results the call may return, None or Some(path)
find_previous_version(date_str, current_version, source_folder) ==
    IF current_version > 1
    THEN LET target_pattern == date_str \o <<".", "v">> \o str(current_version - 1)
             hits == {f \in all_files(source_folder) : contains(f, target_pattern)}
         IN  IF hits = {} THEN {None} ELSE {Some(f) : f \in hits}
    ELSE LET prev_month_str == strftime(minus_one_month(strptime(date_str)))
             prev_month_files == matching_files(prev_month_str, source_folder)
         IN  IF prev_month_files = {} THEN {None}
             ELSE {Some(x[1]) : x \in first_after_sort(prev_month_files)}

\* re.search(rf'{date_str}\.v(\d+)', filename): the version after the leftmost
\* occurrence of date_str followed by '.v' and a digit, or None
search_date_version(date_str, filename) ==
    LET i == search_date_token(filename, 1, date_str)
        v == i + Len(date_str) + 2
    IN  IF i = 0 THEN None
        ELSE Some(int(SubSeq(filename, v, DigitRunEnd(filename, v))))

Max(S) == CHOOSE x \in S : \A y \in S : y <= x

\* find_next_version: max_version + 1, max_version starting at 0
find_next_version(date_str, versioned_folder) ==
    LET versions == {Val(search_date_version(date_str, f)) :
                        f \in {g \in all_files(versioned_folder) :
                                  ~IsNone(search_date_version(date_str, g))}}
    IN  Max(versions \cup {0}) + 1

\* a copy that leaves an existing dst as it is
copy2_keep_existing(folder, name, workbook) ==
    [f \in DOMAIN folder \cup {name} |-> IF f \in DOMAIN folder THEN folder[f] ELSE workbook]

\* shutil.copy2(src, dst): dst is created, or overwritten when it exists
copy2(folder, name, workbook) ==
    [f \in DOMAIN folder \cup {name} |-> IF f = name THEN workbook ELSE folder[f]]

----------------------------------------------------------------------------
(* Workbooks: the two discrepancy-detail sheets, each a list of              *)
(* (Deal Name, AAT Comments) rows                                            *)

TARGET_SHEETS == <<"Highlight IRR Diffs", "Highlight Duration Diffs">>

SheetNames == {TARGET_SHEETS[i] : i \in DOMAIN TARGET_SHEETS}

\* create_highlighted_sheets always creates both sheets; with no significant row
\* a sheet holds its header only
BlankWorkbook == [s \in SheetNames |-> << >>]

----------------------------------------------------------------------------
(* Version Resolver: the calls, on a folder that holds the program's own     *)
(* snapshots and files that users put there                                  *)

Oct31 == <<"2", "0", "2", "5", "1", "0", "3", "1">>

Nov30 == <<"2", "0", "2", "5", "1", "1", "3", "0">>

Dec31 == <<"2", "0", "2", "5", "1", "2", "3", "1">>

\* the reporting dates of the runs: consecutive month ends
ReportDates == {Oct31, Nov30, Dec31}

\* '~$AAT vs ECF 20251130.v7.xlsx': Excel's lock file of an open snapshot
LockFile == LOCK_PREFIX \o REPORT_NAME \o Nov30 \o <<".", "v", "7">> \o XLSX

\* 'AAT vs ECF 20251130.v8.xlsm': not an .xlsx file
MacroFile == REPORT_NAME \o Nov30 \o <<".", "v", "8", ".", "x", "l", "s", "m">>

\* 'AAT vs ECF 20251130.v10.xlsx'
TenthFile == versioned_filename(Nov30, 10)

\* 'Copy AAT vs ECF 20251130.v2 final.xlsx': extraneous text around the token
CopyFile ==
    <<"C", "o", "p", "y", " ">> \o REPORT_NAME \o Nov30 \o <<".", "v", "2">>
        \o <<" ", "f", "i", "n", "a", "l">> \o XLSX

\* '20250831.v1 20251130.v9.xlsx': two <date>.v<N> tokens in one name
TwoTokenFile ==
    <<"2", "0", "2", "5", "0", "8", "3", "1", ".", "v", "1", " ">>
        \o Nov30 \o <<".", "v", "9">> \o XLSX

\* 'AAT vs ECF 20251130.v\u0663.xlsx': the version written with the
\* Arabic-Indic digit three
ArabicIndicFile == REPORT_NAME \o Nov30 \o <<".", "v", "U+0663">> \o XLSX

UserFiles == {LockFile, MacroFile, TenthFile, CopyFile, TwoTokenFile, ArabicIndicFile}

\* the folder holds at most MaxFiles files
MaxFiles == 4

\* find_previous_version is called with current versions 1..MaxCurrentVersion
MaxCurrentVersion == 3

InitVersions ==
    /\ PipelineIdle
    /\ summary = << >>
    /\ \E F \in SUBSET UserFiles :
          /\ Cardinality(F) <= MaxFiles
          /\ versioned = [f \in F |-> BlankWorkbook]
    /\ summary_report = EmptyFolder
    /\ last = [op |-> "listdir"]

FindLatestVersion(date_str) ==
    /\ \E result \in find_latest_version(date_str, versioned) :
          last' = [op |-> "find_latest_version", date_str |-> date_str, result |-> result]
    /\ UNCHANGED <<summary, versioned, summary_report, inputs, df, runs>>

FindPreviousVersion(date_str, current_version) ==
    /\ \E result \in find_previous_version(date_str, current_version, versioned) :
          last' = [op |-> "find_previous_version", date_str |-> date_str,
                   current_version |-> current_version, result |-> result]
    /\ UNCHANGED <<summary, versioned, summary_report, inputs, df, runs>>

FindNextVersion(date_str) ==
    /\ last' = [op |-> "find_next_version", date_str |-> date_str,
                result |-> find_next_version(date_str, versioned)]
    /\ UNCHANGED <<summary, versioned, summary_report, inputs, df, runs>>

\* save_versioned_copy(output_path, date_str, config.VERSIONED_FILES_FOLDER),
\* the last step of run_cross_validation; workbook is the report at output_path
save_versioned_copy(workbook, date_str) ==
    LET next_version == find_next_version(date_str, versioned)
        name == versioned_filename(date_str, next_version)
    IN  /\ Cardinality(DOMAIN versioned) < MaxFiles
        /\ versioned' = copy2(versioned, name, workbook)
        /\ last' = [op |-> "save_versioned_copy", date_str |-> date_str,
                    next_version |-> next_version, written |-> name,
                    before |-> versioned]
        /\ UNCHANGED <<summary, summary_report, inputs, df, runs>>

NextVersions ==
    \/ \E d \in ReportDates : FindLatestVersion(d)
    \/ \E d \in ReportDates : \E n \in 1..MaxCurrentVersion : FindPreviousVersion(d, n)
    \/ \E d \in ReportDates : FindNextVersion(d)
    \/ \E d \in ReportDates : save_versioned_copy(BlankWorkbook, d)

SpecVersions == InitVersions /\ [][NextVersions]_vars

----------------------------------------------------------------------------
(* Claims about the Version Resolver *)

\* The snapshot files of a folder: .xlsx files that are not lock files.
Snapshots(folder) ==
    {f \in DOMAIN folder :
        /\ SubSeq(f, Len(f) - 4, Len(f)) = <<".", "x", "l", "s", "x">>
        /\ SubSeq(f, 1, 2) # <<"~", "$">>}

\* The snapshot files whose embedded date (parse_filename's) is date_str.
SnapshotsOf(date_str, folder) ==
    {f \in Snapshots(folder) :
        parse_filename(f) # None /\ parse_filename(f)[1][1] = date_str}

\* C4: find_latest_version(date, dir) fails (returns None) iff no snapshot file
\* of the folder carries the date; otherwise it returns such a file together
\* with its version N, N is the highest version among the files of that date,
\* and the file is never a lock file.
C4_LatestIsHighest ==
    last.op = "find_latest_version" =>
        LET files == SnapshotsOf(last.date_str, versioned)
        IN  /\ last.result = None <=> files = {}
            /\ last.result # None =>
                  LET path == last.result[1][1]
                      N == last.result[1][2]
                  IN  /\ path \in files
                      /\ parse_filename(path) = Some(<<last.date_str, N>>)
                      /\ \A f \in files : parse_filename(f)[1][2] <= N
                      /\ SubSeq(path, 1, 2) # <<"~", "$">>

\* C4: v3 is returned although a lock file carries v7, an .xlsm file v8, and a file
\* of a lower version stands beside it.
C4_Witness ==
    /\ last.op = "find_latest_version"
    /\ last.date_str = Nov30
    /\ {LockFile, CopyFile, versioned_filename(Nov30, 3)} \subseteq DOMAIN versioned
    /\ last.result = Some(<<versioned_filename(Nov30, 3), 3>>)

\* C5 (as claimed): for current_N > 1, find_previous_version returns a file of
\* date `date` and version exactly current_N - 1 whenever the folder holds one,
\* and reports failure when it holds none, never another version or month.
C5_ExactPreviousVersion ==
    (last.op = "find_previous_version" /\ last.current_version > 1) =>
        LET exact == {f \in SnapshotsOf(last.date_str, versioned) :
                         parse_filename(f)[1][2] = last.current_version - 1}
        IN  /\ exact # {} => (last.result # None /\ last.result[1] \in exact)
            /\ exact = {} => last.result = None

\* the dates of the reporting year, as YYYYMMDD
CalendarDates ==
    {strftime([year |-> 2025, month |-> m, day |-> d]) :
        m \in 1..12, d \in 1..31}

\* the prior period's date of a run for date_str, as YYYYMMDD: the date that
\* initialize_dates gives as formatted_last
PriorPeriod(date_str) ==
    CHOOSE d \in CalendarDates :
        /\ strptime(d).day <= DaysInMonth(2025, strptime(d).month)
        /\ format_date(strptime(d)) = initialize_dates(date_str)[2]

\* C6 (as claimed): for current_N = 1, find_previous_version returns the
\* highest version among the snapshot files that carry the prior period's date
\* as initialize_dates derives it (the preceding month end), and None only when
\* the folder holds no such file.
C6_PriorMonthLatest ==
    (last.op = "find_previous_version" /\ last.current_version = 1) =>
        LET files == SnapshotsOf(PriorPeriod(last.date_str), versioned)
        IN  /\ files = {} <=> last.result = None
            /\ last.result # None =>
                  /\ last.result[1] \in files
                  /\ \A f \in files :
                        parse_filename(f)[1][2] <= parse_filename(last.result[1])[1][2]

\* C7 (as claimed): find_next_version(date, dir) is N + 1 for the N that
\* find_latest_version(date, dir) reports, and 1 when that reports no file; and
\* right after save_versioned_copy, find_latest_version(date) is the file written.
C7_NextIsLatestPlusOne ==
    /\ last.op = "find_next_version" =>
          \A latest \in find_latest_version(last.date_str, versioned) :
              last.result = IF latest = None THEN 1 ELSE latest[1][2] + 1
    /\ last.op = "save_versioned_copy" =>
          find_latest_version(last.date_str, versioned)
              = {Some(<<last.written, last.next_version>>)}

----------------------------------------------------------------------------
(* Annotation Carry-Forward: historical_validation_comments *)

\* A cell holds None or Some(text); a text is a str.  `if value:` is true of a
\* non-empty str.
truthy(cell) == ~IsNone(cell) /\ Val(cell) # << >>

\* the characters of which str.isspace() is true
WHITESPACE ==
    {" ", "\t", "\n", "\r", "\f", "U+000B", "U+001C", "U+001D", "U+001E", "U+001F",
     "U+0085", "U+00A0", "U+1680", "U+2000", "U+2001", "U+2002", "U+2003", "U+2004",
     "U+2005", "U+2006", "U+2007", "U+2008", "U+2009", "U+200A", "U+2028", "U+2029",
     "U+202F", "U+205F", "U+3000"}

IsSpace(c) == c \in WHITESPACE

\* text.strip(): without its leading and trailing whitespace
RECURSIVE strip(_)
strip(text) ==
    IF text = << >> THEN text
    ELSE IF IsSpace(Head(text)) THEN strip(Tail(text))
    ELSE IF IsSpace(text[Len(text)]) THEN strip(SubSeq(text, 1, Len(text) - 1))
    ELSE text

\* key = str(deal_name), the name as it stands
deal_key_unstripped(deal_name) == Val(deal_name)

\* key = str(deal_name).strip(), of a Deal Name cell that holds a str
deal_key(deal_name) == strip(Val(deal_name))

EmptyMap == [k \in {} |-> None]

\* comments_map[key] = comment
put(comments_map, key, comment) ==
    [k \in DOMAIN comments_map \cup {key} |-> IF k = key THEN comment ELSE comments_map[k]]

\* `if deal_name:` where the code has `if deal_name and comment:`
RECURSIVE extract_rows_any_comment(_, _)
extract_rows_any_comment(rows, comments_map) ==
    IF rows = << >> THEN comments_map
    ELSE LET r == Head(rows)
         IN  extract_rows_any_comment(Tail(rows),
                 IF truthy(r.name)
                 THEN put(comments_map, deal_key(r.name), r.comment)
                 ELSE comments_map)

\* for row_idx in range(2, ws.max_row + 1) of extract_comments_mapping: a later
\* row of the same key replaces the earlier entry
RECURSIVE extract_rows(_, _)
extract_rows(rows, comments_map) ==
    IF rows = << >> THEN comments_map
    ELSE LET r == Head(rows)
         IN  extract_rows(Tail(rows),
                 IF truthy(r.name) /\ truthy(r.comment)
                 THEN put(comments_map, deal_key(r.name), r.comment)
                 ELSE comments_map)

\* for sheet_name in sheet_names, a sheet that the workbook lacks skipped
RECURSIVE extract_sheets(_, _, _)
extract_sheets(workbook, sheet_names, comments_map) ==
    IF sheet_names = << >> THEN comments_map
    ELSE extract_sheets(workbook, Tail(sheet_names),
             IF Head(sheet_names) \in DOMAIN workbook
             THEN extract_rows(workbook[Head(sheet_names)], comments_map)
             ELSE comments_map)

extract_comments_mapping(workbook, sheet_names) ==
    extract_sheets(workbook, sheet_names, EmptyMap)

\* whether update_comments writes the row's comment cell
row_is_updated(row, comments_map) ==
    truthy(row.name) /\ deal_key(row.name) \in DOMAIN comments_map

\* fill the comment only where the row has none
update_row_fill_blank(row, comments_map) ==
    IF row_is_updated(row, comments_map) /\ ~truthy(row.comment)
    THEN [row EXCEPT !.comment = comments_map[deal_key(row.name)]]
    ELSE row

\* append the inherited comment to the row's own
update_row_append(row, comments_map) ==
    IF row_is_updated(row, comments_map)
    THEN [row EXCEPT !.comment =
             Some((IF IsNone(row.comment) THEN << >> ELSE Val(row.comment))
                      \o Val(comments_map[deal_key(row.name)]))]
    ELSE row

\* write the key back into the Deal Name cell as well
update_row_renaming(row, comments_map) ==
    IF row_is_updated(row, comments_map)
    THEN [name |-> Some(deal_key(row.name)), comment |-> comments_map[deal_key(row.name)]]
    ELSE row

\* ws.cell(row=row_idx, column=comments_col).value = comments_map[key]
update_row(row, comments_map) ==
    IF row_is_updated(row, comments_map)
    THEN [row EXCEPT !.comment = comments_map[deal_key(row.name)]]
    ELSE row

update_rows_appending(rows, comments_map) ==
    [i \in DOMAIN rows |-> update_row_append(rows[i], comments_map)]

update_rows_filling(rows, comments_map) ==
    [i \in DOMAIN rows |-> update_row_fill_blank(rows[i], comments_map)]

\* for row_idx in range(2, ws.max_row + 1) of update_comments
update_rows(rows, comments_map) ==
    [i \in DOMAIN rows |-> update_row(rows[i], comments_map)]

\* update_comments: the workbook that wb.save writes
update_comments(workbook, comments_map, sheet_names) ==
    [s \in DOMAIN workbook |->
        IF \E i \in DOMAIN sheet_names : sheet_names[i] = s
        THEN update_rows(workbook[s], comments_map)
        ELSE workbook[s]]

\* update_comments: updated_count, the number of cells written
RECURSIVE updated_count(_, _, _)
updated_count(workbook, comments_map, sheet_names) ==
    IF sheet_names = << >> THEN 0
    ELSE (IF Head(sheet_names) \in DOMAIN workbook
          THEN Cardinality({i \in DOMAIN workbook[Head(sheet_names)] :
                               row_is_updated(workbook[Head(sheet_names)][i], comments_map)})
          ELSE 0)
         + updated_count(workbook, comments_map, Tail(sheet_names))

\* always 'AAT vs ECF <date>.v1.xlsx': max_version is not looked up
save_to_summary_report_v1(workbook, date_str, summary_folder) ==
    copy2(summary_folder, versioned_filename(date_str, 1), workbook)

\* save_to_summary_report: the summary folder after the copy, numbered one
\* above the highest version found there for date_str
save_to_summary_report(workbook, date_str, summary_folder) ==
    LET versions == {Val(search_date_version(date_str, f)) :
                        f \in {g \in all_files(summary_folder) :
                                  ~IsNone(search_date_version(date_str, g))}}
        next_version == Max(versions \cup {0}) + 1
    IN  copy2(summary_folder, versioned_filename(date_str, next_version), workbook)

\* the summary-report folder holds at most MaxSummaryCopies files
MaxSummaryCopies == 2

\* run_copy_comments(date_str), steps 1 to 5
run_copy_comments(date_str) ==
    /\ Cardinality(DOMAIN summary_report) < MaxSummaryCopies
    /\ \E latest \in find_latest_version(date_str, versioned) :
        IF IsNone(latest)
        THEN /\ last' = [op |-> "run_copy_comments", date_str |-> date_str,
                         outcome |-> "no latest version", before |-> versioned]
             /\ UNCHANGED <<summary, versioned, summary_report, inputs, df, runs>>
        ELSE
        LET target_file == Val(latest)[1]
            current_version == Val(latest)[2]
        IN  \E prev \in find_previous_version(date_str, current_version, versioned) :
            IF IsNone(prev)
            THEN /\ last' = [op |-> "run_copy_comments", date_str |-> date_str,
                             outcome |-> "no previous version", before |-> versioned]
                 /\ UNCHANGED <<summary, versioned, summary_report, inputs, df, runs>>
            ELSE
            LET prev_file == Val(prev)
                comments_map == extract_comments_mapping(versioned[prev_file], TARGET_SHEETS)
                updated == update_comments(versioned[target_file], comments_map, TARGET_SHEETS)
            IN  IF comments_map = EmptyMap
                THEN /\ last' = [op |-> "run_copy_comments", date_str |-> date_str,
                                 outcome |-> "no comments", before |-> versioned]
                     /\ UNCHANGED <<summary, versioned, summary_report, inputs, df, runs>>
                ELSE /\ versioned' = [versioned EXCEPT ![target_file] = updated]
                     /\ summary_report' = save_to_summary_report(updated, date_str, summary_report)
                     /\ last' = [op |-> "run_copy_comments", date_str |-> date_str,
                                 outcome |-> "updated", target_file |-> target_file,
                                 prev_file |-> prev_file, comments_map |-> comments_map,
                                 updated_count |-> updated_count(versioned[target_file],
                                                                 comments_map, TARGET_SHEETS),
                                 before |-> versioned]
                     /\ UNCHANGED <<summary, inputs, df, runs>>

----------------------------------------------------------------------------
(* Carry-forward between a previous and a current snapshot: 20251231.v1 and  *)
(* 20251231.v2 (the same month), or 20251130.v1 and 20251231.v1 (across the  *)
(* month end)                                                                *)

NameA == <<"A">>

\* 'A \t': the same deal, with a trailing blank and a trailing tab
NameATrailing == <<"A", " ", "\t">>

NameB == <<"B">>

\* the comment texts '', 'x' and 'y'
NoText == << >>

TextX == <<"x">>

TextY == <<"y">>

\* the previous and the current snapshot hold at most MaxDetailRows rows together
MaxDetailRows == 4

\* drop_duplicates(subset='Deal Name') leaves each name at most once per sheet
DetailSheets(names, comments) ==
    {rows \in UNION {[1..n -> [name : names, comment : comments]] : n \in 0..Cardinality(names)} :
        \A i, j \in DOMAIN rows : i # j => rows[i].name # rows[j].name}

RowCount(workbook) == Len(workbook[TARGET_SHEETS[1]]) + Len(workbook[TARGET_SHEETS[2]])

Workbooks(names, comments, max_rows) ==
    {wb \in [SheetNames -> DetailSheets(names, comments)] : RowCount(wb) <= max_rows}

\* the previous snapshot: deals 'A' and 'B', without comment, with an empty
\* comment or with the comment 'x'
PreviousWorkbooks ==
    Workbooks({Some(NameA), Some(NameB)}, {None, Some(NoText), Some(TextX)}, MaxDetailRows)

\* the current snapshot: deals 'A \t' and 'B', without comment or with the comment 'y'
CurrentWorkbooks(max_rows) ==
    Workbooks({Some(NameATrailing), Some(NameB)}, {None, Some(TextY)}, max_rows)

\* the dates run_copy_comments is run for
CommentDates == {Nov30, Dec31}

InitComments ==
    /\ PipelineIdle
    /\ summary = << >>
    /\ \E prev \in PreviousWorkbooks :
       \E cur \in CurrentWorkbooks(MaxDetailRows - RowCount(prev)) :
          \/ versioned = copy2(copy2(EmptyFolder,
                             versioned_filename(Dec31, 1), prev),
                             versioned_filename(Dec31, 2), cur)
          \/ versioned = copy2(copy2(EmptyFolder,
                             versioned_filename(Nov30, 1), prev),
                             versioned_filename(Dec31, 1), cur)
    /\ summary_report = EmptyFolder
    /\ last = [op |-> "listdir"]

NextComments == \E d \in CommentDates : run_copy_comments(d)

SpecComments == InitComments /\ [][NextComments]_vars

----------------------------------------------------------------------------
(* Claims about the carry-forward *)

\* a name without its leading and trailing whitespace
Trimmed(text) ==
    LET solid == {i \in DOMAIN text : text[i] \notin WHITESPACE}
    IN  IF solid = {} THEN << >>
        ELSE SubSeq(text, CHOOSE i \in solid : \A j \in solid : i <= j,
                          CHOOSE i \in solid : \A j \in solid : j <= i)

HasComment(row) == row.comment # None /\ row.comment # Some(<< >>)

\* the last step was a run_copy_comments that went through to update_comments
CarriedForward == last.op = "run_copy_comments" /\ last.outcome = "updated"

\* the rows of the discrepancy-detail views, as <<sheet, index>>
DetailRows(workbook) ==
    {<<TARGET_SHEETS[k], i>> : k \in DOMAIN TARGET_SHEETS, i \in 1..MaxDetailRows}
        \cap {<<s, i>> \in SheetNames \X (1..MaxDetailRows) : i \in DOMAIN workbook[s]}

\* C8: after update_comments(current, map, views) the views have the rows they
\* had, every row whose name, without its leading and trailing whitespace, is a key
\* of the map has the mapped value as its comment, whatever comment it had, and
\* every other row has exactly the comment (possibly none) it had before.
C8_OverwriteByTrimmedName ==
    CarriedForward =>
        LET before == last.before[last.target_file]
            after == versioned[last.target_file]
        IN  /\ DetailRows(after) = DetailRows(before)
            /\ \A p \in DetailRows(before) :
                  LET old == before[p[1]][p[2]]
                      new == after[p[1]][p[2]]
                      name == Trimmed(old.name[1])
                  IN  /\ new.name = old.name
                      /\ new.comment = IF name \in DOMAIN last.comments_map
                                       THEN last.comments_map[name]
                                       ELSE old.comment

\* C8: an update has run that replaced the comment of a row whose name is a key
\* and left alone the comment of a row whose name is not.
C8_Witness ==
    /\ CarriedForward
    /\ \E p, q \in DetailRows(last.before[last.target_file]) :
          LET old_p == last.before[last.target_file][p[1]][p[2]]
              old_q == last.before[last.target_file][q[1]][q[2]]
          IN  /\ HasComment(old_p)
              /\ Trimmed(old_p.name[1]) \in DOMAIN last.comments_map
              /\ versioned[last.target_file][p[1]][p[2]].comment # old_p.comment
              /\ HasComment(old_q)
              /\ Trimmed(old_q.name[1]) \notin DOMAIN last.comments_map
              /\ versioned[last.target_file][q[1]][q[2]].comment = old_q.comment

\* C8 (as claimed): every row whose name is a key of the map has the mapped
\* value as its comment, and every row whose name is not a key keeps the comment
\* it had, the name being the cell's text as it stands.
C8_OverwriteByName ==
    CarriedForward =>
        \A p \in DetailRows(last.before[last.target_file]) :
            LET old == last.before[last.target_file][p[1]][p[2]]
                new == versioned[last.target_file][p[1]][p[2]]
            IN  new.comment = IF old.name[1] \in DOMAIN last.comments_map
                              THEN last.comments_map[old.name[1]]
                              ELSE old.comment

\* the rows of the previous snapshot's views that carry a comment for the entity
\* of the given name, names compared by same_name
PreviousComments(previous, name, same_name(_, _)) ==
    {p \in DetailRows(previous) :
        /\ same_name(previous[p[1]][p[2]].name[1], name)
        /\ HasComment(previous[p[1]][p[2]])}

\* the rows of the previous snapshot's views that belong to the entity
PreviousRows(previous, name, same_name(_, _)) ==
    {p \in DetailRows(previous) : same_name(previous[p[1]][p[2]].name[1], name)}

SameTrimmedName(a, b) == Trimmed(a) = Trimmed(b)

SameName(a, b) == a = b

\* C9: run_copy_comments leaves unchanged every comment of the current snapshot
\* whose entity has no comment, or an empty one, in every discrepancy-detail
\* view of the previous snapshot, an entity being a name without its leading
\* and trailing whitespace; a run that stops before update_comments changes no
\* snapshot at all.
C9_NeverEraseByTrimmedName ==
    last.op = "run_copy_comments" =>
        IF last.outcome = "updated"
        THEN \A p \in DetailRows(last.before[last.target_file]) :
                LET old == last.before[last.target_file][p[1]][p[2]]
                IN  (HasComment(old)
                       /\ PreviousComments(last.before[last.prev_file], old.name[1],
                                           SameTrimmedName) = {})
                    => versioned[last.target_file][p[1]][p[2]] = old
        ELSE versioned = last.before

\* C9: a carry-forward has run over a current row that had a comment and whose
\* entity the previous snapshot lists without a comment, while it wrote other
\* cells.
C9_Witness ==
    /\ CarriedForward
    /\ last.updated_count > 0
    /\ \E p \in DetailRows(last.before[last.target_file]) :
          LET old == last.before[last.target_file][p[1]][p[2]]
          IN  /\ HasComment(old)
              /\ PreviousRows(last.before[last.prev_file], old.name[1], SameTrimmedName) # {}
              /\ PreviousComments(last.before[last.prev_file], old.name[1],
                                  SameTrimmedName) = {}
              /\ versioned[last.target_file][p[1]][p[2]] = old

\* C9 (as claimed): run_copy_comments leaves unchanged every comment of the
\* current snapshot whose entity has no comment, or an empty one, in every
\* discrepancy-detail view of the previous snapshot, an entity being a name as
\* it stands in the cell.
C9_NeverEraseByName ==
    CarriedForward =>
        \A p \in DetailRows(last.before[last.target_file]) :
            LET old == last.before[last.target_file][p[1]][p[2]]
            IN  (HasComment(old)
                   /\ PreviousComments(last.before[last.prev_file], old.name[1],
                                       SameName) = {})
                => versioned[last.target_file][p[1]][p[2]] = old

\* C10: a run_copy_comments that follows a carry-forward for the same date, on
\* the same previous and current snapshot, leaves every snapshot's rows and
\* comments as the first run left them.
C10_Idempotent ==
    [][(CarriedForward /\ last'.op = "run_copy_comments"
            /\ last'.date_str = last.date_str)
         => (/\ last'.outcome = "updated"
             /\ last'.target_file = last.target_file
             /\ last'.prev_file = last.prev_file
             /\ versioned' = versioned)]_vars

\* C10: the carry-forward has run twice for the same date, and the second run
\* wrote comment cells.
C10_Witness ==
    /\ CarriedForward
    /\ last.updated_count > 0
    /\ Cardinality({f \in DOMAIN summary_report :
                       ~IsNone(search_date_version(last.date_str, f))}) = 2
    /\ versioned = last.before

----------------------------------------------------------------------------
(* extract_comments_mapping on a previous snapshot of any content *)

\* the previous snapshot holds at most MaxExtractRows rows
MaxExtractRows == 3

\* the file that extract_comments_mapping reads
PreviousFile == versioned_filename(Nov30, 1)

\* deals 'A', 'A \t' and 'B', without comment, with an empty comment or with the
\* comment 'x' or 'y'
InitExtract ==
    /\ PipelineIdle
    /\ summary = << >>
    /\ \E prev \in Workbooks({Some(NameA), Some(NameATrailing), Some(NameB)},
                             {None, Some(NoText), Some(TextX), Some(TextY)},
                             MaxExtractRows) :
          versioned = copy2(EmptyFolder, PreviousFile, prev)
    /\ summary_report = EmptyFolder
    /\ last = [op |-> "listdir"]

\* comments_map = extract_comments_mapping(prev_file, TARGET_SHEETS)
ExtractCommentsMapping(file_path) ==
    /\ file_path \in DOMAIN versioned
    /\ last' = [op |-> "extract_comments_mapping", file_path |-> file_path,
                result |-> extract_comments_mapping(versioned[file_path], TARGET_SHEETS)]
    /\ UNCHANGED <<summary, versioned, summary_report, inputs, df, runs>>

NextExtract == ExtractCommentsMapping(PreviousFile)

SpecExtract == InitExtract /\ [][NextExtract]_vars

\* the names that stand in the discrepancy-detail views of a workbook
DetailNames(workbook) == {workbook[p[1]][p[2]].name[1] : p \in DetailRows(workbook)}

\* C11: the map that extract_comments_mapping builds has a key k if and only if
\* some row of the previous snapshot's discrepancy-detail views whose name,
\* without its leading and trailing whitespace, is k carries a comment that is
\* neither null nor empty; the value under k is the comment of such a row; no
\* value of the map is null or empty.
C11_MapOfTrimmedNames ==
    last.op = "extract_comments_mapping" =>
        LET previous == versioned[last.file_path]
            keys == {Trimmed(n) : n \in DetailNames(previous)}
        IN  /\ DOMAIN last.result \subseteq keys
            /\ \A k \in keys :
                  LET comments == PreviousComments(previous, k, SameTrimmedName)
                  IN  /\ k \in DOMAIN last.result <=> comments # {}
                      /\ k \in DOMAIN last.result =>
                            /\ \E p \in comments :
                                  last.result[k] = previous[p[1]][p[2]].comment
                            /\ last.result[k] # None
                            /\ last.result[k] # Some(<< >>)

\* C11: a map has been built from a snapshot in which one entity carries a
\* comment under a name with trailing whitespace and another carries only an empty
\* comment.
C11_Witness ==
    /\ last.op = "extract_comments_mapping"
    /\ DOMAIN last.result = {NameA}
    /\ \E p, q \in DetailRows(versioned[last.file_path]) :
          /\ versioned[last.file_path][p[1]][p[2]].name = Some(NameATrailing)
          /\ HasComment(versioned[last.file_path][p[1]][p[2]])
          /\ versioned[last.file_path][q[1]][q[2]] = [name |-> Some(NameB), comment |-> Some(NoText)]

\* C11 (as claimed): the map contains a name E if and only if E, the name as it
\* stands in the view, has a non-null, non-empty comment in at least one view,
\* and the value under E is a comment that E carries.
C11_MapOfNames ==
    last.op = "extract_comments_mapping" =>
        LET previous == versioned[last.file_path]
        IN  \A E \in DetailNames(previous) \cup DOMAIN last.result :
                LET comments == PreviousComments(previous, E, SameName)
                IN  /\ E \in DOMAIN last.result <=> comments # {}
                    /\ E \in DOMAIN last.result =>
                          \E p \in comments :
                              last.result[E] = previous[p[1]][p[2]].comment

----------------------------------------------------------------------------
(* Reconciliation runs and carry-forward passes over one versioned folder *)

\* the report of a run: the 'Summary' sheet and the two discrepancy-detail
\* sheets that create_highlighted_sheets fills from it
Report(irr_rows, duration_rows) ==
    [s \in SheetNames \cup {"Summary"} |->
        IF s = TARGET_SHEETS[1] THEN irr_rows
        ELSE IF s = TARGET_SHEETS[2] THEN duration_rows
        ELSE irr_rows \o duration_rows]

\* the reports that the runs write; 'AAT Comments' is Table A's 'Comments'
Reports ==
    {BlankWorkbook,
     Report(<<[name |-> Some(NameA), comment |-> Some(TextX)]>>,
            <<[name |-> Some(NameB), comment |-> None]>>),
     Report(<<[name |-> Some(NameATrailing), comment |-> None],
              [name |-> Some(NameB), comment |-> Some(TextY)]>>, << >>),
     Report(<< >>, <<[name |-> Some(NameA), comment |-> Some(NoText)]>>)}

\* the runs write at most MaxSnapshots snapshots
MaxSnapshots == 3

InitLifecycle ==
    /\ PipelineIdle
    /\ summary = << >>
    /\ versioned = EmptyFolder
    /\ summary_report = EmptyFolder
    /\ last = [op |-> "listdir"]

\* main.py: run_cross_validation(DATE_STR), run_copy_comments(DATE_STR)
NextLifecycle ==
    \/ /\ Cardinality(DOMAIN versioned) < MaxSnapshots
       /\ \E d \in CommentDates : \E report \in Reports : save_versioned_copy(report, d)
    \/ \E d \in CommentDates : run_copy_comments(d)

SpecLifecycle == InitLifecycle /\ [][NextLifecycle]_vars

\* C12: a run_copy_comments deletes no snapshot file and leaves every file
\* other than the latest version of its date as it was, the previous snapshot
\* included; the latest version keeps its sheets, its rows and every Deal Name,
\* and outside the AAT Comments cells of the two discrepancy-detail sheets
\* nothing of it changes; a reconciliation run deletes and changes no snapshot.
C12_OnlyLatestComments ==
    /\ last.op = "save_versioned_copy" =>
          \A f \in DOMAIN last.before : f \in DOMAIN versioned /\ versioned[f] = last.before[f]
    /\ last.op = "run_copy_comments" =>
          /\ DOMAIN versioned = DOMAIN last.before
          /\ IF last.outcome # "updated" THEN versioned = last.before
             ELSE /\ \E N \in 1..MaxSnapshots :
                        Some(<<last.target_file, N>>)
                            \in find_latest_version(last.date_str, last.before)
                  /\ \A f \in DOMAIN versioned \ {last.target_file} :
                        versioned[f] = last.before[f]
                  /\ LET old == last.before[last.target_file]
                         new == versioned[last.target_file]
                     IN  /\ DOMAIN new = DOMAIN old
                         /\ \A s \in DOMAIN old :
                               /\ Len(new[s]) = Len(old[s])
                               /\ s \notin SheetNames => new[s] = old[s]
                               /\ \A i \in DOMAIN old[s] :
                                     new[s][i].name = old[s][i].name

\* C12: a carry-forward has rewritten a comment of the latest snapshot, in a
\* folder of three snapshots, from a previous snapshot that is still there.
C12_Witness ==
    /\ last.op = "run_copy_comments"
    /\ last.outcome = "updated"
    /\ Cardinality(DOMAIN versioned) = 3
    /\ last.prev_file \in DOMAIN versioned
    /\ versioned[last.target_file] # last.before[last.target_file]
    /\ "Summary" \in DOMAIN versioned[last.target_file]
    /\ \E p \in DetailRows(versioned[last.target_file]) :
          versioned[last.target_file][p[1]][p[2]].name = Some(NameATrailing)
             /\ versioned[last.target_file][p[1]][p[2]].comment = Some(TextX)

----------------------------------------------------------------------------
(* Merger and Deriver: cross_validation.load_data, process_data *)

\* Table A (AAT data) rows are [name, aat_irr, duration_aat, liq_cap, mv,
\* comment]: 'Deal Name', '{date} AAT IRR', 'Duration AAT Base', 'Liq Cap',
\* '{date} MV', 'Comments'.  Table B (Status_Final) rows are [name, instrument,
\* irr, irr_change, duration_dcf]: 'Deal Name', 'Instrument', '{date} IRR',
\* 'IRR Change', 'Duration DCF Base'.  A cell is None (blank) or Some(value).
\* The input files hold further columns whose cells the model does not follow:
\* 'Abs IRR Change', 'Sr. Portfolio Manager', '{last_date} IRR'.  A column that
\* the input files lack is named in the set 'absent': a followed column by the
\* name of its field, another column by its name in the file.

\* The texts that pd.read_excel reads as NaN (keep_default_na=True): '',
\* '#N/A', '#N/A N/A', '#NA', '-1.#IND', '-1.#QNAN', '-NaN', '-nan', '1.#IND',
\* '1.#QNAN', '<NA>', 'N/A', 'NA', 'NULL', 'NaN', 'None', 'n/a', 'nan', 'null'.
NA_VALUES ==
    {<< >>, <<"#", "N", "/", "A">>, <<"#", "N", "/", "A", " ", "N", "/", "A">>,
     <<"#", "N", "A">>, <<"-", "1", ".", "#", "I", "N", "D">>,
     <<"-", "1", ".", "#", "Q", "N", "A", "N">>, <<"-", "N", "a", "N">>,
     <<"-", "n", "a", "n">>, <<"1", ".", "#", "I", "N", "D">>,
     <<"1", ".", "#", "Q", "N", "A", "N">>, <<"<", "N", "A", ">">>, <<"N", "/", "A">>,
     <<"N", "A">>, <<"N", "U", "L", "L">>, <<"N", "a", "N">>, <<"N", "o", "n", "e">>,
     <<"n", "/", "a">>, <<"n", "a", "n">>, <<"n", "u", "l", "l">>}

\* pd.read_excel: a blank cell and a cell that holds one of NA_VALUES both
\* become NaN
na(cell) == IF ~IsNone(cell) /\ Val(cell) \in NA_VALUES THEN None ELSE cell

\* df_aat = pd.read_excel(aat_path)
read_aat(table) ==
    [i \in DOMAIN table |-> [table[i] EXCEPT !.name = na(@), !.comment = na(@)]]

\* df_status = pd.read_excel(status_path)
read_status(table) ==
    [i \in DOMAIN table |-> [table[i] EXCEPT !.name = na(@), !.instrument = na(@)]]

\* df_status[df_status['Instrument'].isna()]
filter_aggregate(df_status) ==
    SelectSeq(df_status, LAMBDA r : IsNone(r.instrument))

\* the rows of a left join for one row of Table A: one per matching row of
\* Table B in Table B's order, or one with Table B's columns null
RECURSIVE join_row(_, _, _)
join_row(a, df_status, matched) ==
    IF df_status = << >>
    THEN IF matched THEN << >>
         ELSE <<[name |-> a.name, aat_irr |-> a.aat_irr, duration_aat |-> a.duration_aat,
                 liq_cap |-> a.liq_cap, mv |-> a.mv, comment |-> a.comment,
                 instrument |-> None, irr |-> None, irr_change |-> None,
                 duration_dcf |-> None]>>
    ELSE LET b == Head(df_status)
         IN  IF b.name = a.name
             THEN <<[name |-> a.name, aat_irr |-> a.aat_irr,
                     duration_aat |-> a.duration_aat, liq_cap |-> a.liq_cap,
                     mv |-> a.mv, comment |-> a.comment,
                     instrument |-> b.instrument, irr |-> b.irr,
                     irr_change |-> b.irr_change,
                     duration_dcf |-> b.duration_dcf]>>
                      \o join_row(a, Tail(df_status), TRUE)
             ELSE join_row(a, Tail(df_status), matched)

\* pd.merge(df_aat, df_status, on='Deal Name', how='left'): Table A's order
RECURSIVE merge(_, _)
merge(df_aat, df_status) ==
    IF df_aat = << >> THEN << >>
    ELSE join_row(Head(df_aat), df_status, FALSE) \o merge(Tail(df_aat), df_status)

\* load_data, both files being there with their columns
load_data(df_aat, df_status) ==
    merge(read_aat(df_aat), filter_aggregate(read_status(df_status)))

\* The exception that load_data raises, "" when it returns: FileNotFoundError
\* at the os.path.exists checks, KeyError at df_status['Instrument'] and at
\* the merge on 'Deal Name'
load_data_raised(aat_data, status_final, absent) ==
    IF IsNone(aat_data) \/ IsNone(status_final) THEN "FileNotFoundError"
    ELSE IF absent \cap {"instrument", "name"} # {} THEN "KeyError"
    ELSE ""

\* df.drop_duplicates(subset='Deal Name', keep='first')
RECURSIVE drop_duplicates(_)
drop_duplicates(rows) ==
    IF rows = << >> THEN << >>
    ELSE LET r == rows[Len(rows)]
             front == SubSeq(rows, 1, Len(rows) - 1)
         IN  IF \E i \in DOMAIN front : front[i].name = r.name
             THEN drop_duplicates(front)
             ELSE drop_duplicates(front) \o <<r>>

\* x - y of two float columns: NaN where either is NaN
minus(x, y) == IF IsNone(x) \/ IsNone(y) THEN None ELSE Some(fsub(Val(x), Val(y)))

\* process_data: 'Instrument' dropped, duplicates dropped, 'AAT&ECF IRR Diffs'
\* = df[irr_col] - df[aat_irr_col], 'Duration Diffs' = df['Duration DCF Base']
\* - df['Duration AAT Base']; 'IRR Change', 'Liq Cap' and 'Comments' keep
\* their cells under the names 'MoM ECF IRR Movements', 'Liq Cap' and
\* 'AAT Comments'
process_data(rows) ==
    LET kept == drop_duplicates(rows)
    IN  [i \in DOMAIN kept |->
            [name |-> kept[i].name,
             aat_irr |-> kept[i].aat_irr,
             irr |-> kept[i].irr,
             irr_diff |-> minus(kept[i].irr, kept[i].aat_irr),
             irr_change |-> kept[i].irr_change,
             duration_aat |-> kept[i].duration_aat,
             duration_dcf |-> kept[i].duration_dcf,
             duration_diff |-> minus(kept[i].duration_dcf, kept[i].duration_aat),
             liq_cap |-> kept[i].liq_cap,
             mv |-> kept[i].mv,
             comment |-> kept[i].comment]]

\* The exception that process_data raises, "" when it returns: KeyError at
\* the first look-up of a column that df lacks, FileNotFoundError at
\* pd.read_excel(pm_owner_path) when the PM-owner file is not there
process_data_raised(absent, aat_pm_owner) ==
    IF absent \cap {"instrument", "Abs IRR Change"} # {} THEN "KeyError"
    ELSE IF absent \cap {"name", "irr", "aat_irr", "duration_dcf", "duration_aat"} # {}
    THEN "KeyError"
    ELSE IF ~aat_pm_owner THEN "FileNotFoundError"
    ELSE IF absent \cap {"Sr. Portfolio Manager", "liq_cap", "mv"} # {} THEN "KeyError"
    ELSE ""

\* df after a call of process_data that raises: the steps before the failing
\* line have changed it in place. 'Instrument' and 'Abs IRR Change' are
\* dropped together or not at all; a missing 'Deal Name' stops the call
\* before the duplicates are dropped; the two differences are inserted one
\* after the other; 'Liq Cap' is popped before the look-up of the MV column
process_data_inplace(rows, absent, aat_pm_owner) ==
    LET without_instrument == [i \in DOMAIN rows |->
                       [name |-> rows[i].name,
                        aat_irr |-> rows[i].aat_irr,
                        irr |-> rows[i].irr,
                        irr_change |-> rows[i].irr_change,
                        duration_aat |-> rows[i].duration_aat,
                        duration_dcf |-> rows[i].duration_dcf,
                        liq_cap |-> rows[i].liq_cap,
                        mv |-> rows[i].mv,
                        comment |-> rows[i].comment]]
        dropped == drop_duplicates(without_instrument)
        with_irr_diff == [i \in DOMAIN dropped |->
                             [name |-> dropped[i].name,
                              aat_irr |-> dropped[i].aat_irr,
                              irr |-> dropped[i].irr,
                              irr_diff |-> minus(dropped[i].irr, dropped[i].aat_irr),
                              irr_change |-> dropped[i].irr_change,
                              duration_aat |-> dropped[i].duration_aat,
                              duration_dcf |-> dropped[i].duration_dcf,
                              liq_cap |-> dropped[i].liq_cap,
                              mv |-> dropped[i].mv,
                              comment |-> dropped[i].comment]]
        with_duration_diff == process_data(rows)
        liq_cap_popped == [i \in DOMAIN with_duration_diff |->
                              [name |-> with_duration_diff[i].name,
                               aat_irr |-> with_duration_diff[i].aat_irr,
                               irr |-> with_duration_diff[i].irr,
                               irr_diff |-> with_duration_diff[i].irr_diff,
                               irr_change |-> with_duration_diff[i].irr_change,
                               duration_aat |-> with_duration_diff[i].duration_aat,
                               duration_dcf |-> with_duration_diff[i].duration_dcf,
                               duration_diff |-> with_duration_diff[i].duration_diff,
                               mv |-> with_duration_diff[i].mv,
                               comment |-> with_duration_diff[i].comment]]
    IN  IF absent \cap {"instrument", "Abs IRR Change"} # {} THEN rows
        ELSE IF "name" \in absent THEN without_instrument
        ELSE IF absent \cap {"irr", "aat_irr"} # {} THEN dropped
        ELSE IF absent \cap {"duration_dcf", "duration_aat"} # {} THEN with_irr_diff
        ELSE IF ~aat_pm_owner THEN with_duration_diff
        ELSE IF absent \cap {"Sr. Portfolio Manager", "liq_cap"} # {} THEN with_duration_diff
        ELSE IF "mv" \in absent THEN liq_cap_popped
        ELSE with_duration_diff

\* load_data in a run: the merged DataFrame, or the exception
LoadData ==
    /\ last.op = "initialize_dates"
    /\ LET raised == load_data_raised(inputs.aat_data, inputs.status_final, inputs.absent)
       IN  IF raised # ""
           THEN /\ last' = [op |-> "load_data", raised |-> raised]
                /\ UNCHANGED df
           ELSE /\ df' = Some(load_data(Val(inputs.aat_data), Val(inputs.status_final)))
                /\ last' = [op |-> "load_data", raised |-> "",
                            df_status |->
                                filter_aggregate(read_status(Val(inputs.status_final)))]
    /\ UNCHANGED <<summary, versioned, summary_report, inputs, runs>>

\* process_data in a run: the processed DataFrame, or the exception
ProcessData ==
    /\ last.op = "load_data"
    /\ last.raised = ""
    /\ LET raised == process_data_raised(inputs.absent, inputs.aat_pm_owner)
       IN  IF raised # ""
           THEN /\ df' = Some(process_data_inplace(Val(df), inputs.absent,
                                                     inputs.aat_pm_owner))
                /\ last' = [op |-> "process_data", raised |-> raised, before |-> Val(df)]
           ELSE /\ df' = Some(process_data(Val(df)))
                /\ last' = [op |-> "process_data", raised |-> "", before |-> Val(df)]
    /\ UNCHANGED <<summary, versioned, summary_report, inputs, runs>>

----------------------------------------------------------------------------
(* The Merger on two input tables of any content *)

\* each input table holds at most MaxTableRows rows
MaxTableRows == 2

\* IRRs: AAT 0.10 or 0.12, ECF 0.17 or 0.16
AatIrrValues == {Some(float(10, 2)), Some(float(12, 2))}

EcfIrrValues == {Some(float(17, 2)), Some(float(16, 2))}

\* durations: AAT 3.0, ECF 3.2
DurationAatValues == {Some(float(30, 1))}

DurationDcfValues == {Some(float(32, 1))}

\* an 'Instrument' that holds the text 'NA'
InstrumentNA == <<"N", "A">>

\* an instrument row's 'Instrument'
InstrumentName == <<"I">>

\* 'Liq Cap' 5, 'Comments' 'x'
TableARows ==
    [name : {Some(NameA), Some(NameB)}, aat_irr : AatIrrValues,
     duration_aat : DurationAatValues, liq_cap : {Some(5)}, mv : {Some(30000000)},
     comment : {Some(TextX)}]

\* 'Instrument' blank, '', 'NA' or 'I'; 'IRR Change' 0.06
TableBRows ==
    [name : {Some(NameA), Some(NameB)},
     instrument : {None, Some(NoText), Some(InstrumentNA), Some(InstrumentName)},
     irr : EcfIrrValues, irr_change : {Some(float(6, 2))},
     duration_dcf : DurationDcfValues]

Tables(rows) == UNION {[1..n -> rows] : n \in 0..MaxTableRows}

\* the columns that the input files of a run lack: none, or one of them
AbsentColumns ==
    {{}, {"instrument"}, {"Abs IRR Change"}, {"duration_dcf"}, {"Sr. Portfolio Manager"},
     {"mv"}, {"comment"}}

InitMerger ==
    /\ runs = NoRuns
    /\ summary = << >>
    /\ versioned = EmptyFolder
    /\ summary_report = EmptyFolder
    /\ \E df_aat \in Tables(TableARows) : \E df_status \in Tables(TableBRows) :
       \E absent \in AbsentColumns : \E aat_pm_owner \in BOOLEAN :
          inputs = [aat_data |-> Some(df_aat), status_final |-> Some(df_status),
                    absent |-> absent, aat_pm_owner |-> aat_pm_owner]
    /\ df = None
    /\ last = [op |-> "initialize_dates"]

NextMerger == LoadData \/ ProcessData

SpecMerger == InitMerger /\ [][NextMerger]_vars

\* the names of a table
NamesOf(rows) == {rows[i].name : i \in DOMAIN rows}

\* the first row of the given name
FirstOf(rows, name) == rows[CHOOSE i \in DOMAIN rows :
                               rows[i].name = name /\ \A j \in 1..(i - 1) : rows[j].name # name]

\* a row of Table B whose 'Instrument' cell is empty: blank or ''
IsBlank(b) == b.instrument \in {None, Some(<< >>)}

\* a row of Table B whose 'Instrument' is null once the file is read: blank,
\* '' or a text that stands for a missing value
IsAggregate(b) == IsNone(na(b.instrument))

\* After load_data and process_data the reconciled table has exactly one row
\* for every name of Table A and no other row; the row carries the Table-A
\* values of the name's first row in Table A and the Table-B values of the
\* name's first aggregate row in Table B, null when Table B has no aggregate
\* row of that name; aggregate_row says which rows of Table B are aggregate.
OneRowPerName(aggregate_row(_)) ==
    (last.op = "process_data" /\ last.raised = "") =>
        LET df_aat == Val(inputs.aat_data)
            aggregate == SelectSeq(Val(inputs.status_final), aggregate_row)
            rows == Val(df)
        IN  /\ NamesOf(rows) = NamesOf(df_aat)
            /\ \A i, j \in DOMAIN rows : rows[i].name = rows[j].name => i = j
            /\ \A i \in DOMAIN rows :
                  LET a == FirstOf(df_aat, rows[i].name)
                  IN  /\ rows[i].aat_irr = a.aat_irr
                      /\ rows[i].mv = a.mv
                      /\ IF rows[i].name \in NamesOf(aggregate)
                         THEN rows[i].irr = FirstOf(aggregate, rows[i].name).irr
                         ELSE rows[i].irr = None /\ rows[i].duration_dcf = None
            /\ \A i, j \in DOMAIN rows :
                  i < j => \E k \in DOMAIN df_aat :
                              /\ df_aat[k].name = rows[i].name
                              /\ \A l \in 1..k : df_aat[l].name # rows[j].name

\* C13: after load_data and process_data the reconciled table has exactly one
\* row for every name of Table A, the first in join order, and its Table-B
\* columns are null when Table B has no row of that name with an empty or
\* null 'Instrument' cell.
C13_OneRowPerName == OneRowPerName(IsBlank)

\* the same with the aggregate rows taken as pd.read_excel hands them to the
\* filter: the rows whose 'Instrument' is null once the file is read
OneRowPerNameAsRead == OneRowPerName(IsAggregate)

\* load_data and process_data have run on a Table A that lists one name and a
\* Table B whose only row is an instrument row of that name, of instrument
\* 'NA': the name has no aggregate row, and its row in the reconciled table
\* carries the instrument row's IRR and duration instead of nulls
C13_InstrumentRowFillsTableB ==
    /\ last.op = "process_data"
    /\ last.raised = ""
    /\ Len(Val(inputs.aat_data)) = 1
    /\ Len(Val(inputs.status_final)) = 1
    /\ Val(inputs.status_final)[1].name = Val(inputs.aat_data)[1].name
    /\ Val(inputs.status_final)[1].instrument = Some(InstrumentNA)
    /\ Len(Val(df)) = 1
    /\ Val(df)[1].irr # None
    /\ Val(df)[1].irr = Val(inputs.status_final)[1].irr
    /\ Val(df)[1].duration_dcf = Val(inputs.status_final)[1].duration_dcf

\* the rows that the left join of Table A with the given rows of Table B has
JoinSize(df_aat, rows) ==
    LET matches(a) == Cardinality({i \in DOMAIN rows : rows[i].name = a.name})
        count[k \in 0..Len(df_aat)] ==
            IF k = 0 THEN 0
            ELSE count[k - 1] + (IF matches(df_aat[k]) = 0 THEN 1 ELSE matches(df_aat[k]))
    IN  count[Len(df_aat)]

\* C14: the Table-B input that load_data joins is Table B's aggregate rows,
\* the rows whose 'Instrument' cell is empty or null, all N of them in their
\* order and no instrument row, and the join is made with those rows only:
\* the join has as many rows as a left join with the N aggregate rows has.
C14_AggregateOnly ==
    (last.op = "load_data" /\ last.raised = "") =>
        LET df_aat == Val(inputs.aat_data)
            df_status == Val(inputs.status_final)
            aggregate == SelectSeq(df_status, IsBlank)
        IN  /\ Len(last.df_status) = Len(aggregate)
            /\ \A i \in DOMAIN aggregate :
                  /\ last.df_status[i].name = aggregate[i].name
                  /\ last.df_status[i].irr = aggregate[i].irr
                  /\ last.df_status[i].instrument = None
            /\ \A i \in DOMAIN Val(df) : Val(df)[i].instrument = None
            /\ Len(Val(df)) = JoinSize(df_aat, aggregate)

\* C14: load_data has run on a Table B of two rows of one name, the first of
\* instrument 'NA' and the second of instrument 'I', and has joined the
\* first: the Table-B input of the join is that row, and the row of the name
\* in the joined table carries its IRR.
C14_NAInstrumentJoined ==
    /\ last.op = "load_data"
    /\ last.raised = ""
    /\ Len(Val(inputs.status_final)) = 2
    /\ Val(inputs.status_final)[1].instrument = Some(InstrumentNA)
    /\ Val(inputs.status_final)[2].instrument = Some(InstrumentName)
    /\ Val(inputs.status_final)[1].name = Val(inputs.status_final)[2].name
    /\ Len(last.df_status) = 1
    /\ last.df_status[1].irr = Val(inputs.status_final)[1].irr
    /\ \E i \in DOMAIN Val(df) :
          /\ Val(df)[i].name = Val(inputs.status_final)[1].name
          /\ Val(df)[i].irr = Val(inputs.status_final)[1].irr

----------------------------------------------------------------------------
(* Deriver: cross_validation.calculate_metrics *)

\* the row's own market value where the code has the running sum
own_value(rows, k) == IF IsNone(rows[k].mv) THEN 0 ELSE Val(rows[k].mv)

\* Series.sum() and Series.cumsum(): NaN skipped; the sum of rows 1..k
RECURSIVE running_sum(_, _)
running_sum(rows, k) ==
    IF k = 0 THEN 0
    ELSE running_sum(rows, k - 1) + (IF IsNone(rows[k].mv) THEN 0 ELSE Val(rows[k].mv))

\* f"{x:.2f}%" of a float x: the sign of x, of -0.0 as well, and the
\* hundredths of |x|
format_2f(x) ==
    LET h == hundredths(x)
    IN  (IF x.neg THEN <<"-">> ELSE << >>)
            \o str(h \div 100) \o <<".">> \o zero_pad(h % 100, 2) \o <<"%">>

\* f"{x:.2f}%" if pd.notnull(x) else "", for x = value / total_mv * 100 in
\* floating point: a division by zero gives inf, -inf or NaN
format_pct(value, total_mv) ==
    IF IsNone(value) THEN << >>
    ELSE IF total_mv = 0
         THEN (IF Val(value) = 0 THEN << >>
               ELSE IF Val(value) > 0 THEN <<"i", "n", "f", "%">>
               ELSE <<"-", "i", "n", "f", "%">>)
    ELSE format_2f(times_100(fdiv(Val(value), total_mv)))

\* the rows that may come first after df.sort_values(by=mv_col, ascending=False)
\* with the default kind='quicksort', which is not a stable sort: any row of the
\* highest market value; NaN rows come last
first_rows(rows, S) ==
    LET valued == {i \in S : ~IsNone(rows[i].mv)}
    IN  IF valued # {}
        THEN {i \in valued : \A j \in valued : Val(rows[j].mv) <= Val(rows[i].mv)}
        ELSE {i \in S : \A j \in S : i <= j}

\* the orders that sort_values may leave the rows S in, as sequences of row
\* numbers
RECURSIVE sort_values(_, _)
sort_values(rows, S) ==
    IF S = {} THEN {<< >>}
    ELSE UNION {{<<i>> \o rest : rest \in sort_values(rows, S \ {i})} :
                    i \in first_rows(rows, S)}

\* calculate_metrics: the DataFrames the call may return; 'MV %' is computed
\* before the sort, 'Cumulative MV %' after it
calculate_metrics(rows) ==
    LET total_mv == running_sum(rows, Len(rows))
        with_pct == [i \in DOMAIN rows |->
                        [name |-> rows[i].name,
                         aat_irr |-> rows[i].aat_irr,
                         irr |-> rows[i].irr,
                         irr_diff |-> rows[i].irr_diff,
                         irr_change |-> rows[i].irr_change,
                         duration_aat |-> rows[i].duration_aat,
                         duration_dcf |-> rows[i].duration_dcf,
                         duration_diff |-> rows[i].duration_diff,
                         liq_cap |-> rows[i].liq_cap,
                         mv |-> rows[i].mv,
                         comment |-> rows[i].comment,
                         mv_pct |-> format_pct(rows[i].mv, total_mv)]]
    IN  {LET sorted == [k \in DOMAIN order |-> with_pct[order[k]]]
         IN  [k \in DOMAIN sorted |->
                 [name |-> sorted[k].name,
                  aat_irr |-> sorted[k].aat_irr,
                  irr |-> sorted[k].irr,
                  irr_diff |-> sorted[k].irr_diff,
                  irr_change |-> sorted[k].irr_change,
                  duration_aat |-> sorted[k].duration_aat,
                  duration_dcf |-> sorted[k].duration_dcf,
                  duration_diff |-> sorted[k].duration_diff,
                  liq_cap |-> sorted[k].liq_cap,
                  mv |-> sorted[k].mv,
                  comment |-> sorted[k].comment,
                  mv_pct |-> sorted[k].mv_pct,
                  cumulative_mv_pct |->
                      format_pct(IF IsNone(sorted[k].mv) THEN None
                                 ELSE Some(running_sum(sorted, k)), total_mv)]] :
            order \in sort_values(rows, DOMAIN rows)}

CalculateMetrics ==
    /\ last.op = "process_data"
    /\ last.raised = ""
    /\ \E result \in calculate_metrics(Val(df)) : df' = Some(result)
    /\ last' = [op |-> "calculate_metrics", before |-> Val(df)]
    /\ UNCHANGED <<summary, versioned, summary_report, inputs, runs>>

----------------------------------------------------------------------------
(* calculate_metrics on a reconciled table of any market values *)

\* the reconciled table holds at most MaxMetricRows rows
MaxMetricRows == 6

\* '{date} MV': blank, -10M, 0 or 10M
MetricMvValues == {None, Some(-10000000), Some(0), Some(10000000)}

\* the k-th deal: 'E1', 'E2', ...
EntityName(k) == <<"E">> \o str(k)

InitMetrics ==
    /\ runs = NoRuns
    /\ summary = << >>
    /\ versioned = EmptyFolder
    /\ summary_report = EmptyFolder
    /\ inputs = NoInputs
    /\ \E n \in 1..MaxMetricRows : \E mvs \in [1..n -> MetricMvValues] :
          df = Some([k \in 1..n |->
                        [name |-> Some(EntityName(k)), aat_irr |-> None, irr |-> None,
                         irr_diff |-> None, irr_change |-> None, duration_aat |-> None,
                         duration_dcf |-> None, duration_diff |-> None,
                         liq_cap |-> None, mv |-> mvs[k], comment |-> None]])
    /\ last = [op |-> "process_data", raised |-> ""]

NextMetrics == CalculateMetrics

SpecMetrics == InitMetrics /\ [][NextMetrics]_vars

----------------------------------------------------------------------------
(* Claims about calculate_metrics *)

\* a percentage string of the form [-]d+.dd%
IsNumericPct(text) ==
    /\ Len(text) >= 5
    /\ text[Len(text)] = "%"
    /\ text[Len(text) - 3] = "."
    /\ \A k \in 1..(Len(text) - 4) : IsDigit(text[k]) \/ (k = 1 /\ text[k] = "-")
    /\ IsDigit(text[Len(text) - 4])

\* the value of a percentage string, in hundredths of a percent
PctValue(text) ==
    LET negative == text[1] = "-"
        whole == SubSeq(text, IF negative THEN 2 ELSE 1, Len(text) - 4)
        cents == SubSeq(text, Len(text) - 2, Len(text) - 1)
        h == int(whole) * 100 + int(cents)
    IN  IF negative THEN -h ELSE h

\* the rows with a market value, as row numbers
Valued(rows) == {i \in DOMAIN rows : rows[i].mv # None}

\* the sum of the values of the field 'MV %' over the rows 1..k that have a
\* market value
RECURSIVE PctSum(_, _)
PctSum(rows, k) ==
    IF k = 0 THEN 0
    ELSE PctSum(rows, k - 1) + (IF rows[k].mv # None THEN PctValue(rows[k].mv_pct) ELSE 0)

\* C15 (as claimed): for every reconciled table with at least one non-null
\* market value, the two-decimal 'MV %' values of the rows with a market value
\* sum to 100.00 within 0.01.
C15_PctSumsTo100 ==
    (last.op = "calculate_metrics" /\ Valued(Val(df)) # {}) =>
        /\ \A i \in Valued(Val(df)) : IsNumericPct(Val(df)[i].mv_pct)
        /\ Abs(PctSum(Val(df), Len(Val(df))) - 10000) <= 1

\* every market value is zero or more, and one is more
NonNegative(rows) ==
    /\ \A i \in Valued(rows) : rows[i].mv[1] >= 0
    /\ \E i \in Valued(rows) : rows[i].mv[1] > 0

\* 'Cumulative MV %' does not decrease from one row with a market value to the
\* next, and is 100.00 within 0.01 at the last of them
CumulativeRises(rows) ==
    /\ \A i \in Valued(rows) : IsNumericPct(rows[i].cumulative_mv_pct)
    /\ \A i, j \in Valued(rows) :
          i < j => PctValue(rows[i].cumulative_mv_pct) <= PctValue(rows[j].cumulative_mv_pct)
    /\ \A i \in Valued(rows) :
          (\A j \in Valued(rows) : j <= i)
             => Abs(PctValue(rows[i].cumulative_mv_pct) - 10000) <= 1

\* C16: when no market value is negative and one at least is positive, the
\* 'Cumulative MV %' of the table that calculate_metrics returns does not
\* decrease along the rows with a market value and is 100.00 within 0.01 at the
\* last of them.
C16_CumulativeMonotone ==
    (last.op = "calculate_metrics" /\ NonNegative(Val(df))) => CumulativeRises(Val(df))

\* C16: calculate_metrics has returned a table of three rows with market
\* values 10M, 10M and 0 and a fourth without one.
C16_Witness ==
    /\ last.op = "calculate_metrics"
    /\ Len(Val(df)) = 4
    /\ Val(df)[1].mv = Some(10000000) /\ Val(df)[2].mv = Some(10000000)
    /\ Val(df)[3].mv = Some(0) /\ Val(df)[4].mv = None
    /\ Val(df)[1].cumulative_mv_pct = <<"5", "0", ".", "0", "0", "%">>
    /\ Val(df)[3].cumulative_mv_pct = <<"1", "0", "0", ".", "0", "0", "%">>
    /\ Val(df)[4].cumulative_mv_pct = << >>

\* C16 (as claimed): for every market-value input, negative values included,
\* 'Cumulative MV %' does not decrease along the rows with a market value and
\* is 100.00 within 0.01 at the last of them.
C16_CumulativeMonotoneAnyValue ==
    (last.op = "calculate_metrics" /\ Valued(Val(df)) # {}) => CumulativeRises(Val(df))

\* the place that the row had in the table before the sort
PlaceBefore(row) == CHOOSE k \in DOMAIN last.before : last.before[k].name = row.name

\* C17 (as claimed): the table that calculate_metrics returns is in descending
\* order of market value, rows of equal market value in the order they had
\* before the sort, rows without a market value after all others and with a
\* blank 'MV %'.
C17_StableDescending ==
    last.op = "calculate_metrics" =>
        LET rows == Val(df)
        IN  \A i, j \in DOMAIN rows :
               /\ (i < j /\ rows[i].mv # None /\ rows[j].mv # None)
                     => rows[i].mv[1] >= rows[j].mv[1]
               /\ (i < j /\ rows[i].mv = rows[j].mv)
                     => PlaceBefore(rows[i]) < PlaceBefore(rows[j])
               /\ (i < j /\ rows[i].mv = None) => rows[j].mv = None
               /\ rows[i].mv = None => rows[i].mv_pct = << >>

\* C15: six rows of 10M each: 'MV %' is '16.67%' six times, 100.02 in all
C15_SixEqualRows ==
    /\ last.op = "calculate_metrics"
    /\ Len(Val(df)) = 6
    /\ \A i \in 1..6 : Val(df)[i].mv = Some(10000000)
                          /\ Val(df)[i].mv_pct = <<"1", "6", ".", "6", "7", "%">>
    /\ PctSum(Val(df), 6) = 10002

----------------------------------------------------------------------------
(* Claims about the derived columns *)

\* C18 (as claimed): for every row with both IRRs, 'AAT&ECF IRR Diffs' is the
\* AAT IRR minus the ECF IRR.
C18_IrrDiffIsAatMinusEcf ==
    (last.op = "process_data" /\ last.raised = "") =>
        \A i \in DOMAIN Val(df) :
            (Val(df)[i].aat_irr # None /\ Val(df)[i].irr # None)
               => Val(df)[i].irr_diff = Some(fsub(Val(df)[i].aat_irr[1], Val(df)[i].irr[1]))

\* C18: process_data has given a deal with AAT IRR 0.10 and ECF IRR 0.17 an
\* 'AAT&ECF IRR Diffs' of +0.07 (between 0.069999 and 0.070001), the ECF IRR
\* minus the AAT IRR.
C18_EcfMinusAat ==
    /\ last.op = "process_data"
    /\ last.raised = ""
    /\ \E i \in DOMAIN Val(df) :
          /\ Val(df)[i].aat_irr = Some(float(10, 2))
          /\ Val(df)[i].irr = Some(float(17, 2))
          /\ ~IsNone(Val(df)[i].irr_diff)
          /\ fgt(Val(Val(df)[i].irr_diff), float(69999, 6))
          /\ flt(Val(Val(df)[i].irr_diff), float(70001, 6))

----------------------------------------------------------------------------
(* The rest of main and run_cross_validation: the report is written, its    *)
(* rows are categorised, and the saved report is copied to the snapshots     *)

\* reorder_columns: df[columns_order]; 'Cumulative MV %' is not in columns_order
reorder_columns(rows) ==
    [i \in DOMAIN rows |->
        [name |-> rows[i].name,
         aat_irr |-> rows[i].aat_irr,
         irr |-> rows[i].irr,
         irr_diff |-> rows[i].irr_diff,
         irr_change |-> rows[i].irr_change,
         duration_aat |-> rows[i].duration_aat,
         duration_dcf |-> rows[i].duration_dcf,
         duration_diff |-> rows[i].duration_diff,
         liq_cap |-> rows[i].liq_cap,
         mv |-> rows[i].mv,
         mv_pct |-> rows[i].mv_pct,
         comment |-> rows[i].comment]]

\* The exception that reorder_columns raises, "" when it returns: KeyError at
\* df[columns_order] when df lacks one of its columns; df.rename in
\* process_data passes over a column that is not there
reorder_columns_raised(absent) ==
    IF absent \cap {"irr_change", "comment", "{last_date} IRR"} # {} THEN "KeyError"
    ELSE ""

\* save_to_excel: the rows of sheet 'Summary'; a NaN is an empty cell, and the
\* sheet has no 'Category' column yet
save_to_excel(rows) ==
    [i \in DOMAIN rows |->
        [name |-> rows[i].name,
         aat_irr |-> rows[i].aat_irr,
         irr |-> rows[i].irr,
         irr_diff |-> rows[i].irr_diff,
         irr_change |-> rows[i].irr_change,
         duration_aat |-> rows[i].duration_aat,
         duration_dcf |-> rows[i].duration_dcf,
         duration_diff |-> rows[i].duration_diff,
         liq_cap |-> rows[i].liq_cap,
         mv_value |-> rows[i].mv,
         mv_pct |-> rows[i].mv_pct,
         comment |-> rows[i].comment,
         category |-> None]]

\* 'cell.value > threshold' where the code has 'abs(cell.value) > threshold'
highlight_and_collect_signed(rows, column_name, threshold) ==
    LET significant(r) ==
            /\ column_name \in DOMAIN r
            /\ ~IsNone(r[column_name])
            /\ fgt(Val(r[column_name]), threshold)
            /\ ~IsNone(r.mv_value)
            /\ Val(r.mv_value) >= SIGNIFICANT_MV_THRESHOLD
    IN  SelectSeq(rows, significant)

\* highlight_and_collect: the rows whose cell in column_name is a number of
\* absolute value above threshold and whose market value is at least
\* mv_threshold; no row when the sheet has no column of that name
highlight_and_collect(rows, column_name, threshold) ==
    LET significant(r) ==
            /\ column_name \in DOMAIN r
            /\ ~IsNone(r[column_name])
            /\ fgt(fabs(Val(r[column_name])), threshold)
            /\ ~IsNone(r.mv_value)
            /\ Val(r.mv_value) >= SIGNIFICANT_MV_THRESHOLD
    IN  SelectSeq(rows, significant)

\* create_sheet: ws.append(row) for each collected row; of its cells the
\* model follows 'Deal Name' and 'AAT Comments', the two columns that
\* extract_comments_mapping and update_comments read
detail_rows(rows) ==
    [i \in DOMAIN rows |-> [name |-> rows[i].name, comment |-> rows[i].comment]]

\* identify_significant_changes: (significant_changes, significant_diffs,
\* duration_diffs)
identify_significant_changes(rows) ==
    <<highlight_and_collect(rows, "irr_change", IRR_DIFF_THRESHOLD),
      highlight_and_collect(rows, "irr_diff", IRR_DIFF_THRESHOLD),
      highlight_and_collect(rows, "duration_diff", DURATION_DIFF_THRESHOLD)>>

\* the cell of a row in a column, None when the sheet has no such column
cell_of(r, column_name) == IF column_name \in DOMAIN r THEN r[column_name] ELSE None

\* key=lambda x: x[1] or 0: an empty 'Liq Cap' counts as 0
liq_cap_key(r) ==
    LET liq_cap == cell_of(r, "liq_cap")
    IN  IF IsNone(liq_cap) THEN 0 ELSE Val(liq_cap)

\* sorted(..., key=..., reverse=True): descending by liq_cap_key; sorted is
\* stable, with reverse=True as well, so rows of equal key keep their order
RECURSIVE sorted_by_liq_cap(_)
sorted_by_liq_cap(rows) ==
    IF rows = << >> THEN << >>
    ELSE LET first == CHOOSE i \in DOMAIN rows :
                          \A j \in DOMAIN rows :
                              \/ liq_cap_key(rows[i]) > liq_cap_key(rows[j])
                              \/ liq_cap_key(rows[i]) = liq_cap_key(rows[j]) /\ i <= j
         IN  <<rows[first]>>
                 \o sorted_by_liq_cap(SubSeq(rows, 1, first - 1)
                                          \o SubSeq(rows, first + 1, Len(rows)))

\* create_missing_aat_sheet: the rows of 'Missing AAT Data', those with an
\* empty '{date} AAT IRR' or 'Duration AAT' cell, with their 'Missing Fields',
\* sorted by 'Liq Cap' descending; no sheet when Summary has neither column
\* (a Summary without rows has the columns of reorder_columns)
create_missing_aat_sheet(rows) ==
    LET has(r, column_name) == column_name \in DOMAIN r
        missing(r, column_name) == has(r, column_name) /\ IsNone(r[column_name])
        listed(r) == missing(r, "aat_irr") \/ missing(r, "duration_aat")
        kept == sorted_by_liq_cap(SelectSeq(rows, listed))
    IN  IF rows # << >> /\ \A i \in DOMAIN rows :
                              ~has(rows[i], "aat_irr") /\ ~has(rows[i], "duration_aat")
        THEN None
        ELSE Some([i \in DOMAIN kept |->
                      [name |-> kept[i].name,
                       aat_irr |-> cell_of(kept[i], "aat_irr"),
                       duration_aat |-> cell_of(kept[i], "duration_aat"),
                       liq_cap |-> cell_of(kept[i], "liq_cap"),
                       mv_value |-> cell_of(kept[i], "mv_value"),
                       missing_fields |->
                           (IF missing(kept[i], "aat_irr") THEN <<"AAT IRR">> ELSE << >>)
                           \o (IF missing(kept[i], "duration_aat")
                               THEN <<"Duration AAT">> ELSE << >>)]])

MOVERS_SHEET == "Significant ECF IRR Movers"

MISSING_SHEET == "Missing AAT Data"

\* identify_significant_changes, create_highlighted_sheets and
\* create_missing_aat_sheet: the workbook that main saves
create_highlighted_sheets(rows) ==
    LET views == identify_significant_changes(rows)
        missing == create_missing_aat_sheet(rows)
        titles == SheetNames \cup {"Summary", MOVERS_SHEET}
                      \cup (IF IsNone(missing) THEN {} ELSE {MISSING_SHEET})
    IN  [s \in titles |->
            IF s = MOVERS_SHEET THEN detail_rows(views[1])
            ELSE IF s = TARGET_SHEETS[1] THEN detail_rows(views[2])
            ELSE IF s = TARGET_SHEETS[2] THEN detail_rows(views[3])
            ELSE IF s = MISSING_SHEET THEN Val(missing)
            ELSE detail_rows(rows)]

\* df = reorder_columns(df, ...); save_to_excel(df, output_path)
SaveToExcel ==
    /\ last.op = "calculate_metrics"
    /\ LET raised == reorder_columns_raised(inputs.absent)
       IN  IF raised # ""
           THEN /\ last' = [op |-> "reorder_columns", raised |-> raised]
                /\ UNCHANGED <<df, summary>>
           ELSE /\ df' = Some(reorder_columns(Val(df)))
                /\ summary' = save_to_excel(reorder_columns(Val(df)))
                /\ last' = [op |-> "save_to_excel"]
    /\ UNCHANGED <<versioned, summary_report, inputs, runs>>

\* wb.save(output_path); wb.close(): main returns
SaveWorkbook ==
    /\ last.op = "add_category_column"
    /\ last' = [op |-> "main", raised |-> ""]
    /\ UNCHANGED <<summary, versioned, summary_report, inputs, df, runs>>

\* no 'raise' in the except clauses
main_except_swallowed(raised) == ""

\* except FileNotFoundError, except KeyError, except Exception: print(...);
\* raise
main_except(raised) == raised

\* the except clauses of main, after a step of main has raised
MainExcept ==
    /\ last.op \in {"load_data", "process_data", "reorder_columns", "load_workbook"}
    /\ last.raised # ""
    /\ last' = [op |-> "main", raised |-> main_except(last.raised)]
    /\ UNCHANGED <<summary, versioned, summary_report, inputs, df, runs>>

\* run_cross_validation after main(date_str) has returned: an exception out of
\* main leaves run_cross_validation before its save_versioned_copy
RunSaveVersionedCopy ==
    /\ last.op = "main"
    /\ last.raised = ""
    /\ save_versioned_copy(create_highlighted_sheets(summary), inputs.date_str)

----------------------------------------------------------------------------
(* A run of run_cross_validation on input files that are there or not       *)

Alpha == <<"A", "l", "p", "h", "a">>

Beta == <<"B", "e", "t", "a">>

\* The AAT cells of a row of Table A: AAT IRR 0.10 with a 'Liq Cap' of 5 and
\* no comment, AAT IRR 0.10 with no 'Liq Cap' and the comment 'x', or no AAT
\* IRR with a 'Liq Cap' of -3 and the comment 'NA'
PipelineACells ==
    {[aat_irr |-> Some(float(10, 2)), liq_cap |-> Some(5), comment |-> None],
     [aat_irr |-> Some(float(10, 2)), liq_cap |-> None, comment |-> Some(TextX)],
     [aat_irr |-> None, liq_cap |-> Some(-3), comment |-> Some(InstrumentNA)]}

\* Table A: Alpha or Beta, market value 30M or 10M, duration 3.0
PipelineARows ==
    {[name |-> name, aat_irr |-> cells.aat_irr, duration_aat |-> duration_aat,
      liq_cap |-> cells.liq_cap, mv |-> mv, comment |-> cells.comment] :
        name \in {Some(Alpha), Some(Beta)}, cells \in PipelineACells,
        duration_aat \in DurationAatValues, mv \in {Some(30000000), Some(10000000)}}

\* The ECF IRR cells of a row of Table B: 0.17 after a movement of 0.06, or
\* 0.16 with no 'IRR Change'
PipelineBCells ==
    {[irr |-> Some(float(17, 2)), irr_change |-> Some(float(6, 2))],
     [irr |-> Some(float(16, 2)), irr_change |-> None]}

\* Table B: an aggregate or an instrument row of Alpha or Beta, duration 3.2
PipelineBRows ==
    {[name |-> name, instrument |-> instrument, irr |-> cells.irr,
      irr_change |-> cells.irr_change, duration_dcf |-> duration_dcf] :
        name \in {Some(Alpha), Some(Beta)},
        instrument \in {None, Some(InstrumentName)},
        cells \in PipelineBCells, duration_dcf \in DurationDcfValues}

\* an input file: not there, or a table
InputFiles(rows) == {None} \cup {Some(t) : t \in Tables(rows)}

\* the snapshot folder before the run: empty, or with last month's snapshot
PipelineFolders ==
    {EmptyFolder, copy2(EmptyFolder, versioned_filename(Nov30, 1), BlankWorkbook)}

InitPipeline ==
    /\ runs = NoRuns
    /\ summary = << >>
    /\ versioned \in PipelineFolders
    /\ summary_report = EmptyFolder
    /\ \E aat_data \in InputFiles(PipelineARows) :
       \E status_final \in InputFiles(PipelineBRows) :
       \E absent \in AbsentColumns : \E aat_pm_owner \in BOOLEAN :
          inputs = [aat_data |-> aat_data, status_final |-> status_final,
                    absent |-> absent, aat_pm_owner |-> aat_pm_owner,
                    date_str |-> Dec31]
    /\ df = None
    /\ last = [op |-> "initialize_dates"]

NextPipeline ==
    \/ LoadData
    \/ ProcessData
    \/ CalculateMetrics
    \/ SaveToExcel
    \/ add_category_column
    \/ SaveWorkbook
    \/ MainExcept
    \/ RunSaveVersionedCopy

SpecPipeline == InitPipeline /\ [][NextPipeline]_vars

----------------------------------------------------------------------------
(* Claims about a whole run *)

\* the rows of a table as a set
RowsOf(rows) == {rows[i] : i \in DOMAIN rows}

\* Table A holds Alpha with a market value of 30M and Beta with 10M, and the
\* aggregate rows of Table B put Alpha's ECF IRR 0.07 above its AAT IRR and
\* Beta's 0.06 above: AAT IRR 0.10, ECF IRR 0.17 and 0.16
AlphaBetaScenario ==
    /\ ~IsNone(inputs.aat_data)
    /\ ~IsNone(inputs.status_final)
    /\ inputs.absent = {}
    /\ inputs.aat_pm_owner
    /\ LET df_aat == Val(inputs.aat_data)
           df_status == filter_aggregate(read_status(Val(inputs.status_final)))
       IN  /\ Len(df_aat) = 2
           /\ {[name |-> r.name, mv |-> r.mv] : r \in RowsOf(df_aat)} =
                  {[name |-> Some(Alpha), mv |-> Some(30000000)],
                   [name |-> Some(Beta), mv |-> Some(10000000)]}
           /\ Len(df_status) = 2
           /\ NamesOf(df_status) = {Some(Alpha), Some(Beta)}
           /\ \A a \in RowsOf(df_aat) : \A b \in RowsOf(df_status) :
                  a.name = b.name =>
                      /\ a.aat_irr = Some(float(10, 2))
                      /\ b.irr = IF a.name = Some(Alpha) THEN Some(float(17, 2))
                                 ELSE Some(float(16, 2))

\* the steps of a run after which the report has its 'Category' column
Categorised ==
    \/ last.op = "add_category_column"
    \/ last.op = "main" /\ last.raised = ""
    \/ last.op = "save_versioned_copy"

\* In a run on Table A = {Alpha 30M, Beta 10M} and aggregate rows that give
\* Alpha an IRR diff of 0.07 and Beta one of 0.06, calculate_metrics returns
\* the rows in the order [Alpha, Beta] with Alpha's 'MV %' = '75.00%' and
\* 'Cumulative MV %' = '100.00%' at Beta, and the report's Summary sheet has
\* the rows in that order with Alpha 'Significant Discrepancy' and Beta
\* 'Significant discrepancy but ignore'.
AlphaBetaBeforeReorder ==
    AlphaBetaScenario =>
        /\ last.op = "calculate_metrics" =>
               /\ [i \in DOMAIN Val(df) |-> Val(df)[i].name] = <<Some(Alpha), Some(Beta)>>
               /\ Val(df)[1].mv_pct = <<"7", "5", ".", "0", "0", "%">>
               /\ Val(df)[2].cumulative_mv_pct = <<"1", "0", "0", ".", "0", "0", "%">>
        /\ last.op = "save_to_excel" =>
               /\ [i \in DOMAIN summary |-> summary[i].name] = <<Some(Alpha), Some(Beta)>>
               /\ summary[1].mv_pct = <<"7", "5", ".", "0", "0", "%">>
        /\ Categorised =>
               /\ [i \in DOMAIN summary |-> summary[i].name] = <<Some(Alpha), Some(Beta)>>
               /\ summary[1].category = Some("Significant Discrepancy")
               /\ summary[2].category = Some("Significant discrepancy but ignore")
               /\ summary[1].mv_pct = <<"7", "5", ".", "0", "0", "%">>

\* the Summary sheet of the report has the column 'Cumulative MV %' and the
\* cell of row i holds text
CumulativeMvPct(i, text) ==
    /\ "cumulative_mv_pct" \in DOMAIN summary[i]
    /\ summary[i].cumulative_mv_pct = text

\* C19: in a run on Table A = {Alpha 30M, Beta 10M} and aggregate rows that
\* give Alpha an IRR diff of 0.07 and Beta one of 0.06, the report that the
\* pipeline writes has the rows in the order [Alpha, Beta], Alpha's 'MV %' =
\* '75.00%' and 'Cumulative MV %' = '100.00%' at Beta, and once the
\* categories are written Alpha is 'Significant Discrepancy' and Beta
\* 'Significant discrepancy but ignore'.
C19_AlphaBetaEndToEnd ==
    AlphaBetaScenario =>
        /\ (last.op = "save_to_excel" \/ Categorised) =>
               /\ [i \in DOMAIN summary |-> summary[i].name] = <<Some(Alpha), Some(Beta)>>
               /\ summary[1].mv_pct = <<"7", "5", ".", "0", "0", "%">>
               /\ CumulativeMvPct(2, <<"1", "0", "0", ".", "0", "0", "%">>)
        /\ Categorised =>
               /\ summary[1].category = Some("Significant Discrepancy")
               /\ summary[2].category = Some("Significant discrepancy but ignore")

\* the Alpha/Beta run has written its report and its snapshot with the rows
\* [Alpha, Beta], their categories and Alpha's 'MV %' = '75.00%', and neither
\* row of the Summary sheet has a 'Cumulative MV %' cell
C19_CumulativeNotInReport ==
    /\ AlphaBetaScenario
    /\ last.op = "save_versioned_copy"
    /\ [i \in DOMAIN summary |-> summary[i].name] = <<Some(Alpha), Some(Beta)>>
    /\ summary[1].category = Some("Significant Discrepancy")
    /\ summary[2].category = Some("Significant discrepancy but ignore")
    /\ summary[1].mv_pct = <<"7", "5", ".", "0", "0", "%">>
    /\ \A i \in DOMAIN summary : "cumulative_mv_pct" \notin DOMAIN summary[i]

\* one of the two input files is not there
InputFileMissing == IsNone(inputs.aat_data) \/ IsNone(inputs.status_final)

\* C20: in a run with an input file that is not there, load_data raises
\* FileNotFoundError, the error leaves main and run_cross_validation as it
\* is, and no step of the run writes the report or adds a file to the
\* snapshot folder.
C20_MissingFileAborts ==
    [][InputFileMissing =>
          /\ last'.op \in {"load_data", "main"}
          /\ last'.raised = "FileNotFoundError"
          /\ summary' = summary
          /\ versioned' = versioned
          /\ summary_report' = summary_report]_vars

\* only the status file is missing, the error has left main, and the snapshot
\* folder still holds last month's snapshot alone
C20_Witness ==
    /\ ~IsNone(inputs.aat_data)
    /\ IsNone(inputs.status_final)
    /\ last.op = "main"
    /\ last.raised = "FileNotFoundError"
    /\ summary = << >>
    /\ DOMAIN versioned = {versioned_filename(Nov30, 1)}

----------------------------------------------------------------------------
(* Runs in which a step of main after save_to_excel fails *)

\* wb = load_workbook(output_path) raises, as any read of a file may: the file
\* that save_to_excel has written stays as it is
LoadWorkbookRaises ==
    /\ last.op = "save_to_excel"
    /\ last' = [op |-> "load_workbook", raised |-> "OSError"]
    /\ UNCHANGED <<summary, versioned, summary_report, inputs, df, runs>>

NextFailingRun == NextPipeline \/ LoadWorkbookRaises

SpecFailingRun == InitPipeline /\ [][NextFailingRun]_vars

\* a run has ended with an exception out of main
RunFailed == last.op = "main" /\ last.raised # ""

\* C21: when a step of a run raises, the exception leaves main, the run adds
\* no snapshot to the versioned folder, and no report is left at the output
\* path.
C21_FailedRunLeavesNothing ==
    RunFailed => /\ versioned \in PipelineFolders
                 /\ summary = << >>

\* a failed run has left a report at the output path whose rows have no
\* category
C21_UncategorisedReportLeft ==
    /\ RunFailed
    /\ versioned \in PipelineFolders
    /\ Len(summary) = 2
    /\ \A i \in DOMAIN summary : summary[i].category = None
    /\ has_irr_discrepancy(summary[1].irr_diff)

----------------------------------------------------------------------------
(* Carry-forward passes in which the target file cannot be opened *)

\* run_copy_comments(date_str) when load_workbook(target_file) raises in
\* update_comments: steps 1 to 3 have found a latest version, a previous
\* version and comments; update_comments prints and re-raises, and
\* run_copy_comments has no handler
run_copy_comments_target_unreadable(date_str) ==
    \E latest \in find_latest_version(date_str, versioned) :
        /\ ~IsNone(latest)
        /\ \E prev \in find_previous_version(date_str, Val(latest)[2], versioned) :
               /\ ~IsNone(prev)
               /\ extract_comments_mapping(versioned[Val(prev)], TARGET_SHEETS) # EmptyMap
        /\ last' = [op |-> "run_copy_comments", date_str |-> date_str,
                    outcome |-> "raised", before |-> versioned]
        /\ UNCHANGED <<summary, versioned, summary_report, inputs, df, runs>>

NextFailingComments ==
    \/ \E d \in CommentDates : run_copy_comments(d)
    \/ \E d \in CommentDates : run_copy_comments_target_unreadable(d)

SpecFailingComments == InitComments /\ [][NextFailingComments]_vars

\* C22: no call of run_copy_comments ends with an exception that reaches its
\* caller, whatever fails inside the pass.
C22_PassNeverRaises ==
    last.op = "run_copy_comments" => last.outcome # "raised"

\* a pass has raised to its caller with the snapshots and the summary-report
\* folder as they were
C22_PassRaised ==
    /\ last.op = "run_copy_comments"
    /\ last.outcome = "raised"
    /\ versioned = last.before
    /\ summary_report = EmptyFolder

----------------------------------------------------------------------------
(* Two calls of save_versioned_copy at work side by side: each lists the    *)
(* folder in find_next_version and copies its report later, and nothing in   *)
(* the code keeps the other call from running between the two steps.         *)
(* shutil.copy2 is no single step either: shutil.copyfile opens the          *)
(* destination with open(dst, 'wb'), which creates or empties it, and then   *)
(* writes the bytes of the source chunk after chunk, each call at its own    *)
(* file offset, with no lock, no temporary file and no rename.               *)

Procs == {1, 2}

\* a copy reaches its destination in at most MaxChunks writes
MaxChunks == 3

\* the number of writes that the file of a workbook takes: one for the report
\* with no detail row, MaxChunks for a longer one
chunk_count(workbook) == IF workbook = BlankWorkbook THEN 1 ELSE MaxChunks

\* the bytes that the k-th write of a copy of workbook puts at offset k
chunk(workbook, k) == [of |-> workbook, part |-> k]

\* a chunk of zero bytes: what a file holds between its old end and the
\* offset of a write beyond it
ZEROS == [of |-> BlankWorkbook, part |-> 0]

BYTES == "(bytes)"

\* the chunks of a file: those of its workbook, or the ones it holds when
\* they make no workbook
chunks_of(file) ==
    IF BYTES \in DOMAIN file THEN file[BYTES]
    ELSE [k \in 1..chunk_count(file) |-> chunk(file, k)]

\* the file of given chunks: a workbook when they are all the chunks of one,
\* and bytes that load_workbook cannot read otherwise
file_of(chunks) ==
    IF /\ chunks # << >>
       /\ chunks[1].part = 1
       /\ chunks = [k \in 1..chunk_count(chunks[1].of) |-> chunk(chunks[1].of, k)]
    THEN chunks[1].of
    ELSE [s \in {BYTES} |-> chunks]

\* open(dst, 'wb') in shutil.copyfile: dst is created, or emptied when it exists
open_wb(folder, name) ==
    [f \in DOMAIN folder \cup {name} |-> IF f = name THEN file_of(<< >>) ELSE folder[f]]

\* open(dst, 'ab'): every write goes to the end of the file
write_chunk_appended(chunks, k, bytes) == Append(chunks, bytes)

\* fdst.write at offset k of a file that holds chunks: the chunk at k is
\* replaced, the chunks beyond k stay, and a file that ends before k is
\* filled with zero bytes up to k
write_chunk(chunks, k, bytes) ==
    [i \in 1..(IF Len(chunks) > k THEN Len(chunks) ELSE k) |->
        IF i = k THEN bytes
        ELSE IF i <= Len(chunks) THEN chunks[i]
        ELSE ZEROS]

\* the folder before the two calls: empty, with one December snapshot, or with
\* two
RaceFolders ==
    {EmptyFolder,
     copy2(EmptyFolder, versioned_filename(Dec31, 1), BlankWorkbook),
     copy2(copy2(EmptyFolder, versioned_filename(Dec31, 1), BlankWorkbook),
           versioned_filename(Dec31, 2), BlankWorkbook)}

RaceDates == {Nov30, Dec31}

InitRace ==
    /\ summary = << >>
    /\ versioned \in RaceFolders
    /\ summary_report = EmptyFolder
    /\ inputs = NoInputs
    /\ df = None
    /\ \E dates \in [Procs -> RaceDates] : \E reports \in [Procs -> Reports] :
          runs = [p \in Procs |->
                     [pc |-> "makedirs", date_str |-> dates[p], output |-> reports[p],
                      next_version |-> 0, listed |-> {}, written |-> 0]]
    /\ last = [op |-> "run_cross_validation"]

\* next_version = find_next_version(date_str, versioned_folder) in call p
RunFindNextVersion(p) ==
    /\ runs[p].pc = "makedirs"
    /\ runs' = [runs EXCEPT ![p].pc = "copy2",
                            ![p].next_version = find_next_version(runs[p].date_str, versioned),
                            ![p].listed = DOMAIN versioned]
    /\ last' = [op |-> "find_next_version", run |-> p]
    /\ UNCHANGED <<summary, versioned, summary_report, inputs, df>>

\* shutil.copy2(output_path, versioned_path) in call p, first part:
\* open(dst, 'wb')
RunCopy2Open(p) ==
    /\ runs[p].pc = "copy2"
    /\ versioned' = open_wb(versioned,
                            versioned_filename(runs[p].date_str, runs[p].next_version))
    /\ runs' = [runs EXCEPT ![p].pc = "copyfile"]
    /\ last' = [op |-> "open", run |-> p]
    /\ UNCHANGED <<summary, summary_report, inputs, df>>

\* shutil.copy2(output_path, versioned_path) in call p, one write of the
\* copy: the next chunk of the source goes to the offset of call p in dst;
\* after the last chunk shutil.copy2 and save_versioned_copy return
RunCopy2(p) ==
    /\ runs[p].pc = "copyfile"
    /\ LET name == versioned_filename(runs[p].date_str, runs[p].next_version)
           k == runs[p].written + 1
       IN  /\ versioned' =
                  [versioned EXCEPT ![name] =
                      file_of(write_chunk(chunks_of(@), k, chunk(runs[p].output, k)))]
           /\ runs' = [runs EXCEPT ![p].written = k,
                                   ![p].pc = IF k = chunk_count(runs[p].output)
                                             THEN "done" ELSE "copyfile"]
    /\ last' = [op |-> "copy2", run |-> p]
    /\ UNCHANGED <<summary, summary_report, inputs, df>>

NextRace ==
    \/ \E p \in Procs : RunFindNextVersion(p)
    \/ \E p \in Procs : RunCopy2Open(p)
    \/ \E p \in Procs : RunCopy2(p)

SpecRace == InitRace /\ [][NextRace]_vars

\* both calls are over, and they were for the same date
BothDoneSameDate ==
    /\ runs # NoRuns
    /\ \A p \in Procs : runs[p].pc = "done"
    /\ runs[1].date_str = runs[2].date_str

\* the file names in the folder before either call copied: the smaller of the
\* two listings
FolderBefore ==
    IF runs[1].listed \subseteq runs[2].listed
    THEN runs[1].listed ELSE runs[2].listed

\* the file name that call p wrote
Written(p) == versioned_filename(runs[p].date_str, runs[p].next_version)

\* C23: of two calls of save_versioned_copy for one date, when both list the
\* folder before either opens its copy, both compute the same next version and
\* write the same file name, and the folder gains one file for the two calls;
\* the file begins with the first chunk of one of the two outputs, is no
\* longer than the longer of them, and each of its chunks is the chunk of one
\* of the two outputs at its offset or zeros, so when the outputs differ the
\* output of at least one call is in no file.  When one call opens its copy before the other lists, the folder
\* gains two files, each the output of its call.
C23_ReadThenWriteRace ==
    BothDoneSameDate =>
        IF runs[1].listed = runs[2].listed
        THEN /\ runs[1].next_version = runs[2].next_version
             /\ Written(1) = Written(2)
             /\ DOMAIN versioned = FolderBefore \cup {Written(1)}
             /\ Written(1) \notin FolderBefore
             /\ LET chunks == chunks_of(versioned[Written(1)])
                IN  /\ chunks # << >>
                    /\ chunks[1] # ZEROS
                    /\ \E p \in Procs : Len(chunks) <= chunk_count(runs[p].output)
                    /\ \A k \in DOMAIN chunks :
                           chunks[k] \in {chunk(runs[p].output, k) : p \in Procs}
                                             \cup {ZEROS}
             /\ runs[1].output # runs[2].output =>
                    \E p \in Procs : \A f \in DOMAIN versioned \ FolderBefore :
                        versioned[f] # runs[p].output
        ELSE /\ runs[1].next_version # runs[2].next_version
             /\ DOMAIN versioned = FolderBefore \cup {Written(1), Written(2)}
             /\ \A p \in Procs : versioned[Written(p)] = runs[p].output

\* two finished calls for 20251231 have added one file to a folder that held
\* v1, and the output of call 1 is in no file
C23_Witness ==
    /\ BothDoneSameDate
    /\ runs[1].date_str = Dec31
    /\ FolderBefore = {versioned_filename(Dec31, 1)}
    /\ DOMAIN versioned = {versioned_filename(Dec31, 1), versioned_filename(Dec31, 2)}
    /\ runs[1].output # runs[2].output
    /\ \A f \in DOMAIN versioned : versioned[f] # runs[1].output

----------------------------------------------------------------------------
(* One writer: runs of save_versioned_copy one after the other, from an     *)
(* empty folder                                                              *)

\* 28 November 2025, the last business day of the month
Nov28 == <<"2", "0", "2", "5", "1", "1", "2", "8">>

\* date_str is whatever the caller passes (main.py DATE_STR); no code checks
\* that it is a month end
WriterDates == {Nov28, Nov30, Dec31}

WriterReports ==
    {BlankWorkbook, Report(<<[name |-> Some(NameA), comment |-> Some(TextX)]>>, << >>)}

InitWriter ==
    /\ PipelineIdle
    /\ summary = << >>
    /\ versioned = EmptyFolder
    /\ summary_report = EmptyFolder
    /\ last = [op |-> "listdir"]

NextWriter ==
    \E d \in WriterDates : \E report \in WriterReports : save_versioned_copy(report, d)

SpecWriter == InitWriter /\ [][NextWriter]_vars

\* YYYYMM of a date string
MonthOf(date_str) == SubSeq(date_str, 1, 6)

\* the snapshot files of a folder whose date falls in the calendar month of
\* date_str
SnapshotsOfMonth(date_str, folder) ==
    {f \in Snapshots(folder) :
        parse_filename(f) # None /\ MonthOf(parse_filename(f)[1][1]) = MonthOf(date_str)}

\* the version numbers of a set of snapshot files
VersionsOf(files) == {parse_filename(f)[1][2] : f \in files}

\* C24: from an empty folder and with one writer, the k snapshots of one date
\* carry the versions 1..k, any two snapshots of one calendar month carry
\* different versions, and a run assigns a version above those of all earlier
\* snapshots of the month.
C24_MonotonePerMonth ==
    /\ \A d \in WriterDates :
           VersionsOf(SnapshotsOf(d, versioned)) =
               1..Cardinality(SnapshotsOf(d, versioned))
    /\ \A f, g \in Snapshots(versioned) :
           (f # g /\ MonthOf(parse_filename(f)[1][1]) = MonthOf(parse_filename(g)[1][1]))
               => parse_filename(f)[1][2] # parse_filename(g)[1][2]
    /\ last.op = "save_versioned_copy" =>
           \A f \in SnapshotsOfMonth(last.date_str, last.before) :
               parse_filename(f)[1][2] < last.next_version

\* Per date string: from an empty folder and with one writer, the k
\* snapshots of one date carry the versions 1..k, and a run writes a new file
\* with a version above those of all earlier snapshots of its date.
MonotonePerDate ==
    /\ \A d \in WriterDates :
           VersionsOf(SnapshotsOf(d, versioned)) =
               1..Cardinality(SnapshotsOf(d, versioned))
    /\ last.op = "save_versioned_copy" =>
           /\ last.written \notin DOMAIN last.before
           /\ \A f \in SnapshotsOf(last.date_str, last.before) :
                  parse_filename(f)[1][2] < last.next_version

\* the folder held 20251128.v1 alone, and the run for 20251130 has assigned
\* version 1 again: November 2025 has two snapshots of version 1
C24_SameVersionTwiceInMonth ==
    /\ last.op = "save_versioned_copy"
    /\ last.date_str = Nov30
    /\ last.next_version = 1
    /\ DOMAIN last.before = {versioned_filename(Nov28, 1)}
    /\ DOMAIN versioned = {versioned_filename(Nov28, 1), versioned_filename(Nov30, 1)}

----------------------------------------------------------------------------
(* main from load_workbook on, on a Summary sheet of any content around the *)
(* thresholds                                                                *)

\* the Summary sheet holds at most MaxReportRows rows
MaxReportRows == 2

\* The cells of a Summary row: 'MoM ECF IRR Movements', 'AAT&ECF IRR Diffs',
\* 'Duration Diffs' and '{date} MV' at and beyond their thresholds, AAT IRR
\* and 'Duration AAT' empty or not, 'Liq Cap' empty, 5 or -3, 'AAT Comments'
\* empty or 'x'.  A diff is empty where process_data had no AAT value to
\* subtract.
ReportCells ==
    {cells \in [irr_change : {Some(float(5, 2)), Some(float(-500001, 7))},
                irr_diff : {None, Some(float(5, 2)), Some(float(500001, 7))},
                duration_diff : {None, Some(float(5, 1)), Some(float(-6, 1))},
                mv_value : {None, Some(25000000), Some(25000001)},
                aat_irr : {None, Some(float(10, 2))},
                duration_aat : {None} \cup DurationAatValues,
                liq_cap : {None, Some(5), Some(-3)},
                comment : {None, Some(TextX)}] :
        /\ IsNone(cells.aat_irr) => IsNone(cells.irr_diff)
        /\ IsNone(cells.duration_aat) => IsNone(cells.duration_diff)}

\* the k-th row of Summary: deal 'Ek' with the given cells
ReportRow(k, cells) ==
    [name |-> Some(EntityName(k)),
     aat_irr |-> cells.aat_irr,
     irr_change |-> cells.irr_change,
     irr_diff |-> cells.irr_diff,
     duration_aat |-> cells.duration_aat,
     duration_diff |-> cells.duration_diff,
     liq_cap |-> cells.liq_cap,
     mv_value |-> cells.mv_value,
     comment |-> cells.comment,
     category |-> None]

InitReport ==
    /\ runs = NoRuns
    /\ df = None
    /\ inputs = [aat_data |-> None, status_final |-> None, date_str |-> Dec31]
    /\ versioned \in PipelineFolders
    /\ summary_report = EmptyFolder
    /\ \E n \in 1..MaxReportRows : \E cells \in [1..n -> ReportCells] :
          summary = [k \in 1..n |-> ReportRow(k, cells[k])]
    /\ last = [op |-> "save_to_excel"]

NextReport ==
    \/ add_category_column
    \/ SaveWorkbook
    \/ RunSaveVersionedCopy

SpecReport == InitReport /\ [][NextReport]_vars

\* the names of the rows of a view of the snapshot that the run has written
ViewNames(view) ==
    LET rows == versioned[last.written][view]
    IN  {rows[i].name : i \in DOMAIN rows}

\* |cell| > threshold, for a cell that may be empty
Exceeds(cell, threshold) ==
    ~IsNone(cell) /\ (fgt(Val(cell), threshold) \/ flt(Val(cell), fneg(threshold)))

\* C25: in the report of a run, an entity is in 'Significant ECF IRR Movers'
\* iff |MoM IRR movement| > 0.05 and its market value is non-null and above
\* 25,000,000, in 'Highlight IRR Diffs' iff |IRR diff| > 0.05 and the same,
\* and in 'Highlight Duration Diffs' iff |duration diff| > 0.5 and the same.
C25_ViewsOfMaterialEntities ==
    last.op = "save_versioned_copy" =>
        \A i \in DOMAIN summary :
            LET r == summary[i]
                material == is_significant_mv(r.mv_value)
            IN  /\ r.name \in ViewNames(MOVERS_SHEET)
                       <=> (Exceeds(r.irr_change, IRR_DIFF_THRESHOLD) /\ material)
                /\ r.name \in ViewNames(TARGET_SHEETS[1])
                       <=> (Exceeds(r.irr_diff, IRR_DIFF_THRESHOLD) /\ material)
                /\ r.name \in ViewNames(TARGET_SHEETS[2])
                       <=> (Exceeds(r.duration_diff, DURATION_DIFF_THRESHOLD) /\ material)

\* a deal of market value 25,000,000 is in 'Highlight IRR Diffs' while the
\* Classifier has put it under 'Significant discrepancy but ignore'
C25_BoundaryEntityListed ==
    /\ last.op = "save_versioned_copy"
    /\ Len(summary) = 1
    /\ summary[1].mv_value = Some(SIGNIFICANT_MV_THRESHOLD)
    /\ summary[1].category = Some("Significant discrepancy but ignore")
    /\ summary[1].name \in ViewNames(TARGET_SHEETS[1])

\* C29: in the report of a run, every entity that the Classifier has put
\* under 'Significant Discrepancy' is a row of 'Highlight IRR Diffs' or of
\* 'Highlight Duration Diffs'.
C29_SignificantEntitiesHaveDetailRow ==
    last.op = "save_versioned_copy" =>
        \A i \in DOMAIN summary :
            summary[i].category = Some("Significant Discrepancy") =>
                summary[i].name \in ViewNames(TARGET_SHEETS[1])
                                       \cup ViewNames(TARGET_SHEETS[2])

\* a deal is 'Significant Discrepancy' for its duration diff of -0.6 alone, and
\* is a row of 'Highlight Duration Diffs' only
C29_Witness ==
    /\ last.op = "save_versioned_copy"
    /\ \E i \in DOMAIN summary :
          /\ summary[i].category = Some("Significant Discrepancy")
          /\ summary[i].irr_diff = None
          /\ summary[i].duration_diff = Some(float(-6, 1))
          /\ summary[i].name \in ViewNames(TARGET_SHEETS[2])
          /\ summary[i].name \notin ViewNames(TARGET_SHEETS[1])

\* the names of Table A that have no aggregate row in Table B
Unmatched ==
    {n \in NamesOf(Val(inputs.aat_data)) :
        n \notin NamesOf(filter_aggregate(read_status(Val(inputs.status_final))))}

\* C26: in a finished run, every entity of Table A without an aggregate row in
\* Table B is a row of the report's Summary sheet, with empty Table-B cells,
\* and a row of the report's 'Missing AAT Data' view.
C26_UnmatchedEntitiesSurfaced ==
    (last.op = "save_versioned_copy" /\ ~InputFileMissing) =>
        \A n \in Unmatched :
            /\ \E i \in DOMAIN summary :
                   /\ summary[i].name = n
                   /\ summary[i].irr = None
                   /\ summary[i].duration_dcf = None
            /\ MISSING_SHEET \in DOMAIN versioned[last.written]
            /\ n \in ViewNames(MISSING_SHEET)

\* Alpha has no aggregate row in Table B: the finished report keeps Alpha in
\* Summary with empty ECF cells and no category, and 'Missing AAT Data' has
\* no row
C26_UnmatchedEntityNotListed ==
    /\ last.op = "save_versioned_copy"
    /\ Some(Alpha) \in Unmatched
    /\ \E i \in DOMAIN summary :
          /\ summary[i].name = Some(Alpha)
          /\ summary[i].irr = None
          /\ summary[i].category = None
    /\ versioned[last.written][MISSING_SHEET] = << >>

----------------------------------------------------------------------------
(* The snapshot lineage: main.py's run_cross_validation(DATE_STR) and      *)
(* run_copy_comments(DATE_STR), called for any date and in any order, from   *)
(* an empty folder                                                           *)

LineageDates == {Oct31, Nov30, Dec31}

\* run_cross_validation(DATE_STR), up to MaxSnapshots times
CreateVersion ==
    /\ Cardinality(DOMAIN versioned) < MaxSnapshots
    /\ \E d \in LineageDates : \E report \in Reports : save_versioned_copy(report, d)

\* run_copy_comments(DATE_STR)
CarryForwardPass == \E d \in LineageDates : run_copy_comments(d)

NextLineage == CreateVersion \/ CarryForwardPass

SpecLineage == InitLifecycle /\ [][NextLineage]_vars

\* the snapshot of the highest version among files
HighestOf(files) ==
    CHOOSE f \in files : \A g \in files : parse_filename(g)[1][2] <= parse_filename(f)[1][2]

\* the latest snapshot of date_str in folder
LatestOf(date_str, folder) == HighestOf(SnapshotsOf(date_str, folder))

\* the snapshots in folder of the calendar month before that of date_str
PriorMonthSnapshots(date_str, folder) ==
    SnapshotsOfMonth(strftime(minus_month_end(strptime(date_str))), folder)

\* the snapshot that precedes the latest one of date_str in the lineage: the
\* version below it, or for version 1 the last version of the month before
Predecessor(date_str, folder) ==
    LET N == parse_filename(LatestOf(date_str, folder))[1][2]
    IN  IF N > 1 THEN Some(versioned_filename(date_str, N - 1))
        ELSE IF PriorMonthSnapshots(date_str, folder) = {} THEN None
        ELSE Some(HighestOf(PriorMonthSnapshots(date_str, folder)))

\* every non-empty comment of a detail view of the predecessor is the comment
\* of the same entity's rows in the detail views of the latest snapshot
Inherited(date_str, folder) ==
    Predecessor(date_str, folder) # None =>
        LET previous == folder[Val(Predecessor(date_str, folder))]
            current == folder[LatestOf(date_str, folder)]
        IN  \A p \in DetailRows(previous) : \A c \in DetailRows(current) :
                (/\ HasComment(previous[p[1]][p[2]])
                 /\ SameTrimmedName(previous[p[1]][p[2]].name[1], current[c[1]][c[2]].name[1]))
                    => current[c[1]][c[2]].comment = previous[p[1]][p[2]].comment

\* a step that is the carry-forward pass for the version that the step
\* before it has created
PassAfterCreation ==
    /\ last.op = "save_versioned_copy"
    /\ last'.op = "run_copy_comments"
    /\ last'.date_str = last.date_str

\* C27: when the carry-forward pass is run after a version has been created,
\* for the date of that version, every non-empty comment that an entity has
\* in a detail view of the version before it in the lineage (the version
\* below it, or for version 1 the last version of the month before) is the
\* entity's comment in the new version wherever the entity is in a detail
\* view of the new version.
C27_CommentsFollowLineage ==
    [][PassAfterCreation =>
          \A after \in {versioned'} : Inherited(last.date_str, after)]_vars

\* the pass for 20251130.v1 has found no previous version although the folder
\* holds October's snapshot, and a deal with a comment there has a row in
\* 20251130.v1 without that comment
C27_OctoberCommentNotInherited ==
    /\ last.op = "run_copy_comments"
    /\ last.date_str = Nov30
    /\ last.outcome = "no previous version"
    /\ DOMAIN versioned = {versioned_filename(Oct31, 1), versioned_filename(Nov30, 1)}
    /\ Predecessor(Nov30, versioned) = Some(versioned_filename(Oct31, 1))
    /\ ~Inherited(Nov30, versioned)

\* the predecessor of the latest snapshot of date_str is no October snapshot
NotFromOctober(date_str, folder) ==
    /\ Predecessor(date_str, folder) # None
    /\ parse_filename(Val(Predecessor(date_str, folder)))[1][1] # Oct31

\* the same within a month and from November to December
C27_CommentsFollowLineageButOctober ==
    [][PassAfterCreation =>
          \A after \in {versioned'} :
              NotFromOctober(last.date_str, after) => Inherited(last.date_str, after)]_vars

----------------------------------------------------------------------------
(* Claims about what the copies leave in place *)

\* folder' is folder with one file more, of a name that was not there, and
\* every file of folder as it was
GrownByOne(before, after) ==
    /\ Cardinality(DOMAIN after) = Cardinality(DOMAIN before) + 1
    /\ \A f \in DOMAIN before : f \in DOMAIN after /\ after[f] = before[f]

\* C28: with one writer, a step of save_versioned_copy adds to the versioned
\* folder one file of a name that was not there and leaves every other file
\* as it was, and a run_copy_comments that publishes adds to the summary-report
\* folder one file of a name that was not there and leaves every other file
\* as it was; no step removes a file from either folder.
C28_CopiesNeverOverwrite ==
    [][/\ last'.op = "save_versioned_copy" => GrownByOne(versioned, versioned')
       /\ summary_report' # summary_report => GrownByOne(summary_report, summary_report')
       /\ DOMAIN versioned \subseteq DOMAIN versioned'
       /\ DOMAIN summary_report \subseteq DOMAIN summary_report']_vars

\* the third snapshot of 20251231 has been written and the second pass has
\* published v2 beside v1 in the summary-report folder
C28_Witness ==
    /\ DOMAIN versioned = {versioned_filename(Dec31, n) : n \in 1..3}
    /\ DOMAIN summary_report = {versioned_filename(Dec31, n) : n \in 1..2}
    /\ last.op = "run_copy_comments"
    /\ last.outcome = "updated"

\* run_copy_comments(date_str) finds a latest version, a previous version, and
\* in a detail view of the previous version a comment that is not empty
FindsComments(date_str) ==
    \E latest \in find_latest_version(date_str, versioned) :
        /\ latest # None
        /\ \E prev \in find_previous_version(date_str, latest[1][2], versioned) :
               /\ prev # None
               /\ \E p \in DetailRows(versioned[prev[1]]) :
                      HasComment(versioned[prev[1]][p[1]][p[2]])

\* the highest version among the copies of date_str in the summary-report
\* folder, 0 when there is none
PublishedVersion(date_str) ==
    Max(VersionsOf(SnapshotsOf(date_str, summary_report)) \cup {0})

\* C30: a run_copy_comments adds a file to the summary-report folder iff it
\* finds a latest version, a previous version and a non-empty comment in the
\* previous version; the file is a copy of the latest snapshot as the pass
\* leaves it, under a new name numbered one above the highest version of the
\* date in the folder, and nothing else in the folder changes; a second pass on
\* the same snapshots publishes a copy of the same content as the first.
C30_PublishesIffCommentsFound ==
    [][last'.op = "run_copy_comments" =>
          LET d == last'.date_str
              name == versioned_filename(d, PublishedVersion(d) + 1)
          IN  /\ summary_report' # summary_report <=> FindsComments(d)
              /\ ~FindsComments(d) => versioned' = versioned
              /\ FindsComments(d) =>
                     /\ name \notin DOMAIN summary_report
                     /\ \E latest \in find_latest_version(d, versioned) :
                            summary_report' =
                                copy2(summary_report, name, versioned'[latest[1][1]])
              /\ (CarriedForward /\ last.date_str = d) =>
                     /\ FindsComments(d)
                     /\ summary_report'[name] =
                            summary_report[versioned_filename(d, PublishedVersion(d))]]_vars

\* two passes for 20251231.v1, whose previous version is November's snapshot,
\* have published v1 and v2 of the same content
C30_Witness ==
    /\ DOMAIN summary_report = {versioned_filename(Dec31, 1), versioned_filename(Dec31, 2)}
    /\ summary_report[versioned_filename(Dec31, 1)]
          = summary_report[versioned_filename(Dec31, 2)]
    /\ last.op = "run_copy_comments"
    /\ last.date_str = Dec31
    /\ last.outcome = "updated"
    /\ last.target_file = versioned_filename(Dec31, 1)
    /\ last.prev_file = versioned_filename(Nov30, 1)

====
